---- MODULE Spec2Model ----
(***************************************************************************)
(* A model of wasmic: WebAssembly components exposed as MCP tools.         *)
(*                                                                         *)
(* Two specifications are defined over the same variables:                 *)
(*   TransformSpec  the JSON <-> component value conversion, applied to    *)
(*                  one (JSON value, target type) pair drawn in Init;      *)
(*   Spec           the executor serving tool calls against its catalog.   *)
(***************************************************************************)
EXTENDS Integers, Sequences, FiniteSets, TLC

(***************************************************************************)
(* Bounds of the model.                                                    *)
(***************************************************************************)
\* longest JSON array drawn as a marshalling input
MaxLen == 2
\* number of tool calls the executor model serves concurrently
MaxCalls == 2

MaxAdds == 3

(***************************************************************************)
(* Integers.  TLC integers are 32 bits wide, the program's are 64, so an   *)
(* integer is a sign and a magnitude of five 16-bit limbs, most            *)
(* significant first.                                                      *)
(***************************************************************************)
Limb == 2^16

Mag(a, b, c, d, e) == <<a, b, c, d, e>>

\* magnitude of a natural below 2^31
Small(n) == <<0, 0, 0, n \div Limb, n % Limb>>

MagLt(a, b) == \E i \in 1..5 : a[i] < b[i] /\ \A j \in 1..(i - 1) : a[j] = b[j]

MagLe(a, b) == a = b \/ MagLt(a, b)

MagZero == Small(0)

\* a signed integer: <<negative?, magnitude>>; zero is never negative
Pos(m) == <<FALSE, m>>

Neg(m) == <<m # MagZero, m>>

IsNeg(x) == x[1]

MagOf(x) == x[2]

IntLe(x, y) ==
    IF IsNeg(x)
    THEN IF IsNeg(y) THEN MagLe(MagOf(y), MagOf(x)) ELSE TRUE
    ELSE IF IsNeg(y) THEN FALSE ELSE MagLe(MagOf(x), MagOf(y))

\* 2^(W-1) and 2^W - 1 as magnitudes
Pow2(w) ==
    CASE w = 7 -> Small(128)
      [] w = 8 -> Small(256)
      [] w = 15 -> Small(32768)
      [] w = 16 -> Small(65536)
      [] w = 31 -> Mag(0, 0, 0, 32768, 0)
      [] w = 32 -> Mag(0, 0, 1, 0, 0)
      [] w = 63 -> Mag(0, 32768, 0, 0, 0)
      [] w = 64 -> Mag(1, 0, 0, 0, 0)

\* the magnitude just below a non-zero magnitude
MagPred(m) ==
    LET nz == {i \in 1..5 : m[i] # 0}
        k == CHOOSE i \in nz : \A j \in nz : j <= i
    IN  [i \in 1..5 |-> IF i < k THEN m[i] ELSE IF i = k THEN m[i] - 1 ELSE Limb - 1]

\* the magnitude just above a magnitude (below 2^80 - 1)
MagSucc(m) ==
    LET nm == {i \in 1..5 : m[i] # Limb - 1}
        k == CHOOSE i \in nm : \A j \in nm : j <= i
    IN  [i \in 1..5 |-> IF i < k THEN m[i] ELSE IF i = k THEN m[i] + 1 ELSE 0]

I8_MIN == Neg(Pow2(7))

I8_MAX == Pos(MagPred(Pow2(7)))

U8_MAX == Pos(MagPred(Pow2(8)))

I16_MIN == Neg(Pow2(15))

I16_MAX == Pos(MagPred(Pow2(15)))

U16_MAX == Pos(MagPred(Pow2(16)))

I32_MIN == Neg(Pow2(31))

I32_MAX == Pos(MagPred(Pow2(31)))

U32_MAX == Pos(MagPred(Pow2(32)))

I64_MIN == Neg(Pow2(63))

I64_MAX == Pos(MagPred(Pow2(63)))

U64_MAX == Pos(MagPred(Pow2(64)))

\* two's complement of a word of limbs: complement every limb, add one
TwosComp(w) ==
    LET c == [i \in 1..Len(w) |-> (Limb - 1) - w[i]]
        nm == {i \in 1..Len(w) : c[i] # Limb - 1}
    IN  IF nm = {} THEN [i \in 1..Len(w) |-> 0]
        ELSE LET k == CHOOSE i \in nm : \A j \in nm : j <= i
             IN  [i \in 1..Len(w) |-> IF i < k THEN c[i] ELSE IF i = k THEN c[i] + 1 ELSE 0]

\* the 64-bit pattern (four limbs) of an integer that fits 64 bits
Bits64(x) ==
    LET low == SubSeq(MagOf(x), 2, 5)
    IN  IF IsNeg(x) THEN TwosComp(low) ELSE low

\* Rust `x as uW`: keep the low W bits
CastUnsigned(w, x) ==
    LET b == Bits64(x)
    IN  CASE w = 8 -> Pos(Small(b[4] % 256))
          [] w = 16 -> Pos(Small(b[4]))
          [] w = 32 -> Pos(<<0, 0, 0, b[3], b[4]>>)
          [] w = 64 -> Pos(<<0>> \o b)

\* Rust `x as iW`: keep the low W bits, read them as two's complement
CastSigned(w, x) ==
    LET b == Bits64(x)
    IN  CASE w = 8 -> LET v == b[4] % 256
                      IN  IF v >= 128 THEN Neg(Small(256 - v)) ELSE Pos(Small(v))
          [] w = 16 -> IF b[4] >= 32768 THEN Neg(Small(Limb - b[4])) ELSE Pos(Small(b[4]))
          [] w = 32 -> IF b[3] >= 32768
                       THEN Neg(<<0, 0, 0>> \o TwosComp(<<b[3], b[4]>>))
                       ELSE Pos(<<0, 0, 0, b[3], b[4]>>)
          [] w = 64 -> IF b[1] >= 32768
                       THEN Neg(<<0>> \o TwosComp(b))
                       ELSE Pos(<<0>> \o b)

(***************************************************************************)
(* serde_json::Value.  A value is a tagged tuple; an object is the         *)
(* sequence of its <<key, value>> entries in iteration order, keys         *)
(* distinct.  A number is serde_json's N: PosInt(u64), NegInt(i64) or      *)
(* Float(f64); a float is named by its decimal text or, when it was made   *)
(* from an integer, by that integer.                                       *)
(***************************************************************************)
JNull == <<"null">>

JBool(b) == <<"bool", b>>

JNumber(n) == <<"number", n>>

JString(s) == <<"string", s>>

JArray(a) == <<"array", a>>

JObject(entries) == <<"object", entries>>

Kind(j) == j[1]

PosInt(m) == <<"PosInt", Pos(m)>>

NegInt(m) == <<"NegInt", Neg(m)>>

Float(f) == <<"Float", <<"text", f>>>>

\* the float holding an integer's value (precision loss above 2^53 is not modelled)
FloatOfInt(x) == <<"Float", <<"int", x>>>>

\* serde_json's parse of an integer literal: u64 if it fits, else i64 if it
\* is negative and fits, else f64
ParseInteger(x) ==
    IF ~IsNeg(x) /\ IntLe(x, U64_MAX) THEN PosInt(MagOf(x))
    ELSE IF IsNeg(x) /\ IntLe(I64_MIN, x) THEN NegInt(MagOf(x))
    ELSE FloatOfInt(x)

JInt(x) == JNumber(ParseInteger(x))

\* serde_json::Number::from for every integer width
NumberFrom(x) == IF IsNeg(x) THEN NegInt(MagOf(x)) ELSE PosInt(MagOf(x))

None == <<"None">>

Some(v) == <<"Some", v>>

IsSome(o) == o[1] = "Some"

Unwrap(o) == o[2]

\* Number::as_i64
as_i64(n) ==
    CASE n[1] = "PosInt" -> IF IntLe(n[2], I64_MAX) THEN Some(n[2]) ELSE None
      [] n[1] = "NegInt" -> Some(n[2])
      [] OTHER -> None

\* Number::as_u64
as_u64(n) == IF n[1] = "PosInt" THEN Some(n[2]) ELSE None

\* Number::as_f64
as_f64(n) == IF n[1] = "Float" THEN Some(n) ELSE Some(FloatOfInt(n[2]))

is_i64(n) == IsSome(as_i64(n))

is_u64(n) == n[1] = "PosInt"

\* Value::as_bool, as_str, as_i64, as_u64, as_f64
json_as_bool(j) == IF Kind(j) = "bool" THEN Some(j[2]) ELSE None

json_as_str(j) == IF Kind(j) = "string" THEN Some(j[2]) ELSE None

json_as_i64(j) == IF Kind(j) = "number" THEN as_i64(j[2]) ELSE None

json_as_u64(j) == IF Kind(j) = "number" THEN as_u64(j[2]) ELSE None

json_as_f64(j) == IF Kind(j) = "number" THEN as_f64(j[2]) ELSE None

\* `f as f32` widened back to f64: exact for the floats an f32 holds
F32(f) ==
    IF f = Float("0.1") THEN Float("0.10000000149011612") ELSE f

Keys(entries) == {entries[i][1] : i \in 1..Len(entries)}

HasKey(entries, k) == k \in Keys(entries)

Get(entries, k) == entries[CHOOSE i \in 1..Len(entries) : entries[i][1] = k][2]

\* serde_json::Map::insert: replace the value of a present key, else append
MapInsert(entries, k, v) ==
    IF HasKey(entries, k)
    THEN [i \in 1..Len(entries) |-> IF entries[i][1] = k THEN <<k, v>> ELSE entries[i]]
    ELSE Append(entries, <<k, v>>)

(***************************************************************************)
(* wasmtime::component::Type and Val, as tagged tuples.                    *)
(***************************************************************************)
TBool == <<"Bool">>

TS8 == <<"S8">>

TU8 == <<"U8">>

TS16 == <<"S16">>

TU16 == <<"U16">>

TS32 == <<"S32">>

TU32 == <<"U32">>

TS64 == <<"S64">>

TU64 == <<"U64">>

TFloat32 == <<"Float32">>

TFloat64 == <<"Float64">>

TChar == <<"Char">>

TString == <<"String">>

TList(t) == <<"List", t>>

\* fields: sequence of <<name, type>>
TRecord(fields) == <<"Record", fields>>

TTuple(types) == <<"Tuple", types>>

\* cases: sequence of <<name, Some(type) or None>>
TVariant(cases) == <<"Variant", cases>>

TEnum(names) == <<"Enum", names>>

TOption(t) == <<"Option", t>>

\* ok, err: Some(type) or None
TResult(ok, err) == <<"Result", ok, err>>

TFlags(names) == <<"Flags", names>>

TOwn == <<"Own">>

VBool(b) == <<"Bool", b>>

VInt(tag, x) == <<tag, x>>

VFloat32(f) == <<"Float32", f>>

VFloat64(f) == <<"Float64", f>>

VChar(c) == <<"Char", c>>

VString(s) == <<"String", s>>

VList(vs) == <<"List", vs>>

\* fields: sequence of <<name, value>>
VRecord(fields) == <<"Record", fields>>

VTuple(vs) == <<"Tuple", vs>>

VVariant(name, payload) == <<"Variant", name, payload>>

VEnum(name) == <<"Enum", name>>

VOption(o) == <<"Option", o>>

\* r: <<"Ok", Some(v) or None>> or <<"Err", Some(v) or None>>
VResult(r) == <<"Result", r>>

VFlags(names) == <<"Flags", names>>

VResource == <<"Resource">>

(***************************************************************************)
(* crate::error::Result.                                                   *)
(***************************************************************************)
Ok(v) == <<"Ok", v>>

Err(kind, detail) == <<"Err", kind, detail>>

IsOk(r) == r[1] = "Ok"

IsErr(r) == r[1] = "Err"

ErrKind(r) == r[2]

ErrDetail(r) == r[3]

\* Iterator::collect into Result<Vec<_>>: the first error, else all values
Collect(rs) ==
    LET bad == {i \in 1..Len(rs) : IsErr(rs[i])}
    IN  IF bad = {} THEN Ok([i \in 1..Len(rs) |-> rs[i][2]])
        ELSE rs[CHOOSE i \in bad : \A j \in bad : i <= j]

(***************************************************************************)
(* utils/transform.rs: JSON -> component value, guided by an optional      *)
(* target type.                                                            *)
(***************************************************************************)
\* the untyped conversion of a number: S64 if it is an i64, else U64, else Float64
number_default(n) ==
    IF is_i64(n) THEN Ok(VInt("S64", Unwrap(as_i64(n))))
    ELSE IF is_u64(n) THEN Ok(VInt("U64", Unwrap(as_u64(n))))
    ELSE Ok(VFloat64(Unwrap(as_f64(n))))

\* the arms U8, U16, U32, U64 of the typed conversion of a number
number_unsigned(n, tag, w, max, name) ==
    IF IsSome(as_u64(n))
    THEN IF IntLe(Unwrap(as_u64(n)), max)
         THEN Ok(VInt(tag, CastUnsigned(w, Unwrap(as_u64(n)))))
         ELSE Err("InvalidArguments", "exceeds " \o name \o " range")
    ELSE Err("InvalidArguments", "Expected unsigned integer for " \o name \o " type")

\* the arms S8, S16, S32, S64 of the typed conversion of a number
number_signed(n, tag, w, min, max, name) ==
    IF IsSome(as_i64(n))
    THEN IF IntLe(min, Unwrap(as_i64(n))) /\ IntLe(Unwrap(as_i64(n)), max)
         THEN Ok(VInt(tag, CastSigned(w, Unwrap(as_i64(n)))))
         ELSE Err("InvalidArguments", "exceeds " \o name \o " range")
    ELSE Err("InvalidArguments", "Expected signed integer for " \o name \o " type")

\* the Value::Number arm of to_wasm_with_type
number_with_type(n, wasm_type) ==
    IF IsSome(wasm_type)
    THEN LET t == Unwrap(wasm_type)[1]
         IN  CASE t = "U8" -> number_unsigned(n, "U8", 8, U8_MAX, "u8")
               [] t = "U16" -> number_unsigned(n, "U16", 16, U16_MAX, "u16")
               [] t = "U32" -> number_unsigned(n, "U32", 32, U32_MAX, "u32")
               [] t = "U64" -> number_unsigned(n, "U64", 64, U64_MAX, "u64")
               [] t = "S8" -> number_signed(n, "S8", 8, I8_MIN, I8_MAX, "s8")
               [] t = "S16" -> number_signed(n, "S16", 16, I16_MIN, I16_MAX, "s16")
               [] t = "S32" -> number_signed(n, "S32", 32, I32_MIN, I32_MAX, "s32")
               [] t = "S64" -> number_signed(n, "S64", 64, I64_MIN, I64_MAX, "s64")
               [] t = "Float32" -> Ok(VFloat32(F32(Unwrap(as_f64(n)))))
               [] t = "Float64" -> Ok(VFloat64(Unwrap(as_f64(n))))
               [] OTHER -> number_default(n)
    ELSE number_default(n)

\* the Value::Array arm of to_wasm_with_type, given the conversions of the
\* elements: a list of them, or the first error
array_to_list(each) ==
    LET wasm_values == Collect(each)
    IN  IF IsErr(wasm_values) THEN wasm_values ELSE Ok(VList(wasm_values[2]))

\* the typed Value::Object arm of to_wasm_with_type, given the conversions of
\* the declared fields (each[i] for fields[i], a missing one being an error):
\* the first error of the loop over the declared fields, else the rejection
\* of an undeclared key, else the record in declaration order
typed_record(obj, fields, each) ==
    LET expected_fields == {fields[i][1] : i \in 1..Len(fields)}
        record_fields == Collect(each)
    IN  IF IsErr(record_fields) THEN record_fields
        ELSE IF \E k \in Keys(obj) : k \notin expected_fields
        THEN Err("InvalidArguments", "Unexpected field")
        ELSE Ok(VRecord([i \in 1..Len(fields) |-> <<fields[i][1], record_fields[2][i]>>]))

\* the untyped Value::Object arm of to_wasm_with_type: a record of the
\* entries in the object's iteration order
untyped_record(obj, each) ==
    LET record_fields == Collect(each)
    IN  IF IsErr(record_fields) THEN record_fields
        ELSE Ok(VRecord([i \in 1..Len(obj) |-> <<obj[i][1], record_fields[2][i]>>]))

RECURSIVE to_wasm_with_type(_, _)
to_wasm_with_type(json_value, wasm_type) ==
    CASE Kind(json_value) = "null" -> Ok(VString("null"))
      [] Kind(json_value) = "bool" -> Ok(VBool(json_value[2]))
      [] Kind(json_value) = "number" -> number_with_type(json_value[2], wasm_type)
      [] Kind(json_value) = "string" -> Ok(VString(json_value[2]))
      [] Kind(json_value) = "array" ->
            LET arr == json_value[2]
            IN  array_to_list([i \in 1..Len(arr) |-> to_wasm_with_type(arr[i], None)])
      [] Kind(json_value) = "object" ->
            LET obj == json_value[2]
            IN  IF IsSome(wasm_type) /\ Unwrap(wasm_type)[1] = "Record"
                THEN LET fields == Unwrap(wasm_type)[2]
                     IN  typed_record(obj, fields,
                            [i \in 1..Len(fields) |->
                                IF HasKey(obj, fields[i][1])
                                THEN to_wasm_with_type(Get(obj, fields[i][1]),
                                                       Some(fields[i][2]))
                                ELSE Err("InvalidArguments", "Missing required field")])
                ELSE untyped_record(obj,
                        [i \in 1..Len(obj) |-> to_wasm_with_type(obj[i][2], None)])

(***************************************************************************)
(* utils/transform.rs: component value -> JSON.                            *)
(***************************************************************************)
\* serde_json::Number::from_f64(f).unwrap_or(Number::from(0)): no JSON
\* number holds a NaN or an infinity
number_from_f64(f) ==
    IF f \in {Float("NaN"), Float("inf")} THEN PosInt(MagZero) ELSE f

RECURSIVE wasm_to_json(_)
\* the object built by inserting the fields i.. of a record into obj
RECURSIVE record_to_object(_, _, _)
record_to_object(fields, i, obj) ==
    IF i > Len(fields) THEN Ok(JObject(obj))
    ELSE LET v == wasm_to_json(fields[i][2])
         IN  IF IsErr(v) THEN v
             ELSE record_to_object(fields, i + 1, MapInsert(obj, fields[i][1], v[2]))

\* the object that has no "value" entry when there is no payload
payload_object_bare(tag, name, payload) ==
    IF IsSome(payload)
    THEN LET v == wasm_to_json(Unwrap(payload))
         IN  IF IsErr(v) THEN v
             ELSE Ok(JObject(MapInsert(<<<<tag, JString(name)>>>>, "value", v[2])))
    ELSE Ok(JObject(<<<<tag, JString(name)>>>>))

\* the {tag: name, "value": payload or null} object of a variant or result
payload_object(tag, name, payload) ==
    IF IsSome(payload)
    THEN LET v == wasm_to_json(Unwrap(payload))
         IN  IF IsErr(v) THEN v
             ELSE Ok(JObject(MapInsert(<<<<tag, JString(name)>>>>, "value", v[2])))
    ELSE Ok(JObject(MapInsert(<<<<tag, JString(name)>>>>, "value", JNull)))

wasm_to_json(wasm_value) ==
    LET k == wasm_value[1]
    IN  CASE k = "Bool" -> Ok(JBool(wasm_value[2]))
          [] k \in {"S8", "U8", "S16", "U16", "S32", "U32", "S64", "U64"} ->
                Ok(JNumber(NumberFrom(wasm_value[2])))
          [] k \in {"Float32", "Float64"} -> Ok(JNumber(number_from_f64(wasm_value[2])))
          [] k \in {"Char", "String", "Enum"} -> Ok(JString(wasm_value[2]))
          [] k \in {"List", "Tuple"} ->
                LET vals == wasm_value[2]
                    json_values == Collect([i \in 1..Len(vals) |-> wasm_to_json(vals[i])])
                IN  IF IsErr(json_values) THEN json_values ELSE Ok(JArray(json_values[2]))
          [] k = "Record" -> record_to_object(wasm_value[2], 1, <<>>)
          [] k = "Variant" -> payload_object("variant", wasm_value[2], wasm_value[3])
          [] k = "Option" ->
                IF IsSome(wasm_value[2]) THEN wasm_to_json(Unwrap(wasm_value[2]))
                ELSE Ok(JNull)
          [] k = "Result" ->
                IF wasm_value[2][1] = "Ok"
                THEN payload_object("result", "ok", wasm_value[2][2])
                ELSE payload_object("result", "error", wasm_value[2][2])
          [] k = "Flags" ->
                Ok(JArray([i \in 1..Len(wasm_value[2]) |-> JString(wasm_value[2][i])]))
          [] k = "Resource" -> Ok(JString("[Resource]"))
          [] k = "Future" -> Ok(JString("[Future]"))
          [] k = "Stream" -> Ok(JString("[Stream]"))
          [] k = "ErrorContext" -> Ok(JString("[ErrorContext]"))

\* the conversion that returns an array for every number of results
convert_wasm_results_wrapped(wasm_results) ==
    IF Len(wasm_results) = 0
    THEN Ok(JString("Successfully executed (no return value)"))
    ELSE LET json_results == Collect([i \in 1..Len(wasm_results) |->
                                        wasm_to_json(wasm_results[i])])
         IN  IF IsErr(json_results) THEN json_results ELSE Ok(JArray(json_results[2]))

\* Convert WASM result values to JSON with proper formatting
convert_wasm_results_to_json(wasm_results) ==
    IF Len(wasm_results) = 0
    THEN Ok(JString("Successfully executed (no return value)"))
    ELSE IF Len(wasm_results) = 1 THEN wasm_to_json(wasm_results[1])
    ELSE LET json_results == Collect([i \in 1..Len(wasm_results) |->
                                        wasm_to_json(wasm_results[i])])
         IN  IF IsErr(json_results) THEN json_results ELSE Ok(JArray(json_results[2]))

(***************************************************************************)
(* executor.rs: the conversion of the positional arguments of a call.      *)
(***************************************************************************)
\* the arms U8, U16, U32, U64 of convert_json_to_wasm_value
executor_unsigned(json_value, tag, w, max, name) ==
    IF IsSome(json_as_u64(json_value))
    THEN IF IntLe(Unwrap(json_as_u64(json_value)), max)
         THEN Ok(VInt(tag, CastUnsigned(w, Unwrap(json_as_u64(json_value)))))
         ELSE Err("InvalidArguments", "Expected " \o name \o " range")
    ELSE Err("InvalidArguments", "Expected " \o name)

\* the arms S8, S16, S32, S64 without the comparison with the minimum
executor_signed_nomin(json_value, tag, w, min, max, name) ==
    IF IsSome(json_as_i64(json_value))
    THEN IF IntLe(Unwrap(json_as_i64(json_value)), max)
         THEN Ok(VInt(tag, CastSigned(w, Unwrap(json_as_i64(json_value)))))
         ELSE Err("InvalidArguments", "Expected " \o name \o " range")
    ELSE Err("InvalidArguments", "Expected " \o name)

\* the arms S8, S16, S32, S64 of convert_json_to_wasm_value
executor_signed(json_value, tag, w, min, max, name) ==
    IF IsSome(json_as_i64(json_value))
    THEN IF IntLe(min, Unwrap(json_as_i64(json_value)))
            /\ IntLe(Unwrap(json_as_i64(json_value)), max)
         THEN Ok(VInt(tag, CastSigned(w, Unwrap(json_as_i64(json_value)))))
         ELSE Err("InvalidArguments", "Expected " \o name \o " range")
    ELSE Err("InvalidArguments", "Expected " \o name)

\* Convert a single JSON value to WASM value based on WASM type
convert_json_to_wasm_value(json_value, wasm_type) ==
    LET t == wasm_type[1]
    IN  CASE t = "Bool" ->
                IF IsSome(json_as_bool(json_value))
                THEN Ok(VBool(Unwrap(json_as_bool(json_value))))
                ELSE Err("InvalidArguments", "Expected boolean")
          [] t \in {"Char", "String"} ->
                IF IsSome(json_as_str(json_value))
                THEN Ok(VString(Unwrap(json_as_str(json_value))))
                ELSE Err("UnexpectedExpected", "string")
          [] t = "S8" -> executor_signed(json_value, "S8", 8, I8_MIN, I8_MAX, "s8")
          [] t = "U8" -> executor_unsigned(json_value, "U8", 8, U8_MAX, "u8")
          [] t = "S16" -> executor_signed(json_value, "S16", 16, I16_MIN, I16_MAX, "s16")
          [] t = "U16" -> executor_unsigned(json_value, "U16", 16, U16_MAX, "u16")
          [] t = "S32" -> executor_signed(json_value, "S32", 32, I32_MIN, I32_MAX, "s32")
          [] t = "U32" -> executor_unsigned(json_value, "U32", 32, U32_MAX, "u32")
          [] t = "S64" -> executor_signed(json_value, "S64", 64, I64_MIN, I64_MAX, "s64")
          [] t = "U64" -> executor_unsigned(json_value, "U64", 64, U64_MAX, "u64")
          [] t = "Float32" ->
                IF IsSome(json_as_f64(json_value))
                THEN Ok(VFloat32(F32(Unwrap(json_as_f64(json_value)))))
                ELSE Err("InvalidArguments", "Expected f32")
          [] t = "Float64" ->
                IF IsSome(json_as_f64(json_value))
                THEN Ok(VFloat64(Unwrap(json_as_f64(json_value))))
                ELSE Err("InvalidArguments", "Expected f64")
          [] t \in {"Record", "List", "Tuple", "Variant", "Enum", "Option", "Result", "Flags"} ->
                to_wasm_with_type(json_value, Some(wasm_type))
          [] t \in {"Own", "Borrow", "Future", "Stream", "ErrorContext"} ->
                Ok(VString(ToString(json_value)))

\* Convert JSON arguments to WASM values using the transformer: every error
\* of a parameter's conversion becomes InvalidArguments, its text kept
convert_args_to_wasm_values(arguments, params) ==
    LET n == IF Len(arguments) < Len(params) THEN Len(arguments) ELSE Len(params)
        each == [i \in 1..n |->
                    LET r == convert_json_to_wasm_value(arguments[i], params[i].wasm_type)
                    IN  IF IsErr(r) THEN Err("InvalidArguments", ErrDetail(r)) ELSE r]
    IN  Collect(each)

(***************************************************************************)
(* Names.  A name is the sequence of its segments, the separators "." and  *)
(* "/" being segments of their own, so that the program's splitting and    *)
(* joining of names is computed, not assumed.                              *)
(***************************************************************************)
Dot == "."

\* format!("{a}.{b}")
Dotted(a, b) == a \o <<Dot>> \o b

\* str::contains('.')
contains_dot(name) == \E i \in 1..Len(name) : name[i] = Dot

\* str::split_once("."): the parts around the first dot
split_once(name) ==
    IF contains_dot(name)
    THEN LET k == CHOOSE i \in 1..Len(name) :
                    name[i] = Dot /\ \A j \in 1..(i - 1) : name[j] # Dot
         IN  Some(<<SubSeq(name, 1, k - 1), SubSeq(name, k + 1, Len(name))>>)
    ELSE None

\* str::rsplit_once('.'): the parts around the last dot
rsplit_once(name) ==
    IF contains_dot(name)
    THEN LET k == CHOOSE i \in 1..Len(name) :
                    name[i] = Dot /\ \A j \in (i + 1)..Len(name) : name[j] # Dot
         IN  Some(<<SubSeq(name, 1, k - 1), SubSeq(name, k + 1, Len(name))>>)
    ELSE None

\* path.split('/').last(): what follows the last "/"
last_segment(path) ==
    LET slashes == {i \in 1..Len(path) : path[i] = "/"}
    IN  IF slashes = {} THEN path
        ELSE SubSeq(path, (CHOOSE i \in slashes : \A j \in slashes : j <= i) + 1, Len(path))

(***************************************************************************)
(* wasm.rs: the JSON schema of a component type.                           *)
(***************************************************************************)
JNat(n) == JNumber(PosInt(Small(n)))

JStrings(names) == JArray([i \in 1..Len(names) |-> JString(names[i])])

RECURSIVE convert_wasm_type_to_json(_)
\* the properties object of a record type, built by inserting its fields
RECURSIVE record_properties(_, _, _)
record_properties(fields, i, properties) ==
    IF i > Len(fields) THEN properties
    ELSE record_properties(fields, i + 1,
            MapInsert(properties, fields[i][1], convert_wasm_type_to_json(fields[i][2])))

\* one branch of the schema of a result type
result_branch(key, ty) ==
    JObject(<< <<"type", JString("object")>>,
               <<"properties", JObject(<<<<key, ty>>>>)>>,
               <<"required", JStrings(<<key>>)>> >>)

convert_wasm_type_to_json(ty) ==
    LET t == ty[1]
    IN  CASE t = "Bool" -> JString("boolean")
          [] t \in {"Char", "String"} -> JString("string")
          [] t \in {"S8", "U8", "S16", "U16", "S32", "U32", "S64", "U64"} -> JString("integer")
          [] t \in {"Float32", "Float64"} -> JString("number")
          [] t = "List" ->
                JObject(<< <<"type", JString("array")>>,
                           <<"items", convert_wasm_type_to_json(ty[2])>> >>)
          [] t = "Record" ->
                JObject(<< <<"type", JString("object")>>,
                           <<"properties", JObject(record_properties(ty[2], 1, <<>>))>>,
                           <<"required", JStrings([i \in 1..Len(ty[2]) |-> ty[2][i][1]])>>,
                           <<"additionalProperties", JBool(FALSE)>> >>)
          [] t = "Tuple" ->
                JObject(<< <<"type", JString("array")>>,
                           <<"items", JArray([i \in 1..Len(ty[2]) |->
                                                convert_wasm_type_to_json(ty[2][i])])>>,
                           <<"minItems", JNat(Len(ty[2]))>>,
                           <<"maxItems", JNat(Len(ty[2]))>> >>)
          [] t = "Variant" ->
                JObject(<< <<"oneOf", JArray([i \in 1..Len(ty[2]) |->
                    IF IsSome(ty[2][i][2])
                    THEN JObject(<< <<"type", JString("object")>>,
                                    <<"properties",
                                      JObject(<<<<ty[2][i][1],
                                                  convert_wasm_type_to_json(Unwrap(ty[2][i][2]))>>>>)>>,
                                    <<"required", JStrings(<<ty[2][i][1]>>)>>,
                                    <<"additionalProperties", JBool(FALSE)>> >>)
                    ELSE JObject(<<<<"const", JString(ty[2][i][1])>>>>)])>> >>)
          [] t = "Enum" ->
                JObject(<< <<"type", JString("string")>>, <<"enum", JStrings(ty[2])>> >>)
          [] t = "Option" ->
                JObject(<< <<"oneOf", JArray(<< convert_wasm_type_to_json(ty[2]),
                                                JObject(<<<<"type", JString("null")>>>>) >>)>> >>)
          [] t = "Result" ->
                LET null == JObject(<<<<"type", JString("null")>>>>)
                    ok == IF IsSome(ty[2])
                          THEN result_branch("Ok", convert_wasm_type_to_json(Unwrap(ty[2])))
                          ELSE null
                    err == IF IsSome(ty[3])
                           THEN result_branch("Err", convert_wasm_type_to_json(Unwrap(ty[3])))
                           ELSE IF IsSome(ty[2]) THEN null
                           ELSE JObject(<<<<"type", JString("string")>>>>)
                IN  JObject(<< <<"oneOf", JArray(<<ok, err>>)>> >>)
          [] t = "Flags" ->
                JObject(<< <<"type", JString("array")>>,
                           <<"items", JObject(<< <<"type", JString("string")>>,
                                                 <<"enum", JStrings(ty[2])>> >>)>>,
                           <<"uniqueItems", JBool(TRUE)>> >>)
          [] t \in {"Own", "Borrow", "ErrorContext"} -> JString("string")
          [] t = "Future" ->
                LET pending == <<"pending", JObject(<<<<"type", JString("boolean")>>>>)>>
                IN  JObject(<< <<"type", JString("object")>>,
                               <<"properties",
                                 JObject(IF IsSome(ty[2])
                                         THEN <<pending,
                                                <<"value", convert_wasm_type_to_json(Unwrap(ty[2]))>>>>
                                         ELSE <<pending>>)>> >>)
          [] t = "Stream" ->
                JObject(<< <<"type", JString("array")>>,
                           <<"items", IF IsSome(ty[2])
                                      THEN convert_wasm_type_to_json(Unwrap(ty[2]))
                                      ELSE JObject(<<<<"type", JString("string")>>>>)>> >>)

(***************************************************************************)
(* wasm.rs: the export walker.  An export is <<name, item>>; an item is    *)
(*   <<"ComponentFunc", params, results>>   params: <<name, type>>s        *)
(*   <<"ComponentInstance", exports>>                                      *)
(*   <<"Component", exports>>                                              *)
(*   <<"CoreFunc">>, <<"Module">>, <<"Type">>, <<"Resource">>              *)
(***************************************************************************)
\* ParameterInfo
ParameterInfo(name, wasm_type, position) ==
    [ name |-> name,
      param_json |-> convert_wasm_type_to_json(wasm_type),
      wasm_type |-> wasm_type,
      position |-> position ]

\* FunctionInfo
FunctionInfo(name, params, results) ==
    [name |-> name, params |-> params, results |-> results]

\* InterfaceInfo; functions is the map as its <<key, FunctionInfo>> entries
InterfaceInfo(name, full_name, functions) ==
    [name |-> name, full_name |-> full_name, functions |-> functions]

\* ComponentExports
ComponentExports(functions, interfaces) ==
    [functions |-> functions, interfaces |-> interfaces]

\* the loop of the ComponentInstance arm over the functions found under one
\* export: keyed by the name found, renamed to the path of that export
\* the loop that keys a function by its local name
RECURSIVE insert_interface_functions_local(_, _, _, _)
insert_interface_functions_local(interface_functions, funcs, i, full_function_path) ==
    IF i > Len(funcs) THEN interface_functions
    ELSE insert_interface_functions_local(
            MapInsert(interface_functions, Unwrap(rsplit_once(funcs[i].name))[2],
                      [funcs[i] EXCEPT !.name = full_function_path]),
            funcs, i + 1, full_function_path)

RECURSIVE insert_interface_functions(_, _, _, _)
insert_interface_functions(interface_functions, funcs, i, full_function_path) ==
    IF i > Len(funcs) THEN interface_functions
    ELSE insert_interface_functions(
            MapInsert(interface_functions, funcs[i].name,
                      [funcs[i] EXCEPT !.name = full_function_path]),
            funcs, i + 1, full_function_path)

RECURSIVE get_exports(_, _)
\* the loop of the ComponentInstance arm over the exports of the instance
RECURSIVE walk_instance(_, _, _, _)
walk_instance(path, exports, i, acc) ==
    IF i > Len(exports) THEN acc
    ELSE LET child == Dotted(path, exports[i][1])
             nested_result == get_exports(child, exports[i][2])
         IN  walk_instance(path, exports, i + 1,
                [ interface_functions |->
                      insert_interface_functions(acc.interface_functions,
                                                 nested_result.functions, 1, child),
                  interfaces |-> acc.interfaces \o nested_result.interfaces ])

\* the loop of the Component arm over the exports of the nested component
RECURSIVE walk_component(_, _, _, _)
walk_component(path, exports, i, acc) ==
    IF i > Len(exports) THEN acc
    ELSE LET nested_result == get_exports(Dotted(path, exports[i][1]), exports[i][2])
         IN  walk_component(path, exports, i + 1,
                ComponentExports(acc.functions \o nested_result.functions,
                                 acc.interfaces \o nested_result.interfaces))

get_exports(path, item) ==
    CASE item[1] = "ComponentFunc" ->
            ComponentExports(
                <<FunctionInfo(path,
                    [i \in 1..Len(item[2]) |-> ParameterInfo(item[2][i][1], item[2][i][2], i - 1)],
                    [i \in 1..Len(item[3]) |-> convert_wasm_type_to_json(item[3][i])])>>,
                <<>>)
      [] item[1] = "ComponentInstance" ->
            LET walked == walk_instance(path, item[2], 1,
                              [interface_functions |-> <<>>, interfaces |-> <<>>])
            IN  ComponentExports(<<>>,
                    IF walked.interface_functions # <<>>
                    THEN Append(walked.interfaces,
                                InterfaceInfo(last_segment(path), path,
                                              walked.interface_functions))
                    ELSE walked.interfaces)
      [] item[1] = "Component" ->
            walk_component(path, item[2], 1, ComponentExports(<<>>, <<>>))
      [] OTHER -> ComponentExports(<<>>, <<>>)

\* the two loops of extract_component_info over the exports of one
\* top-level export, on the maps acc.interfaces and acc.functions
RECURSIVE insert_functions(_, _, _)
insert_functions(functions, exports, i) ==
    IF i > Len(exports.functions) THEN functions
    ELSE LET func == exports.functions[i]
         IN  insert_functions(
                IF \E k \in 1..Len(exports.interfaces) :
                       HasKey(exports.interfaces[k].functions, func.name)
                THEN functions
                ELSE MapInsert(functions, func.name, func),
                exports, i + 1)

RECURSIVE insert_interfaces(_, _, _)
insert_interfaces(interfaces, exports, i) ==
    IF i > Len(exports.interfaces) THEN interfaces
    ELSE LET interface == exports.interfaces[i]
         IN  insert_interfaces(
                IF interface.functions # <<>>
                THEN MapInsert(interfaces, interface.full_name, interface)
                ELSE interfaces,
                exports, i + 1)

\* Extract component information: <<interfaces, functions>>
RECURSIVE extract_component_info(_, _, _)
extract_component_info(tree, i, acc) ==
    IF i > Len(tree) THEN acc
    ELSE LET exports == get_exports(tree[i][1], tree[i][2])
         IN  extract_component_info(tree, i + 1,
                << insert_interfaces(acc[1], exports, 1),
                   insert_functions(acc[2], exports, 1) >>)

\* WasmComponent::new_with_engine on a compiled component with exports `tree`
new_with_engine(name, tree) ==
    LET info == extract_component_info(tree, 1, <<<<>>, <<>>>>)
    IN  [name |-> name, component |-> tree, interfaces |-> info[1], functions |-> info[2]]

\* the lookup in the standalone functions only
get_function_info_standalone(component, function_name) ==
    IF HasKey(component.functions, function_name)
    THEN {Some(Get(component.functions, function_name))}
    ELSE {None}

\* Get function information by name: the interfaces are searched first, in
\* the arbitrary order of the map, then the standalone functions; the set of
\* the results that order allows
get_function_info(component, function_name) ==
    LET in_interfaces ==
            {Get(component.interfaces[k][2].functions, function_name) :
                k \in {k \in 1..Len(component.interfaces) :
                          HasKey(component.interfaces[k][2].functions, function_name)}}
    IN  IF in_interfaces # {} THEN {Some(f) : f \in in_interfaces}
        ELSE IF HasKey(component.functions, function_name)
        THEN {Some(Get(component.functions, function_name))}
        ELSE {None}

(***************************************************************************)
(* wasm.rs: the tools of a component.                                      *)
(***************************************************************************)
\* the properties of the input schema, built by inserting the parameters
RECURSIVE input_properties(_, _, _)
input_properties(params, i, properties) ==
    IF i > Len(params) THEN properties
    ELSE LET param_schema ==
                IF Kind(params[i].param_json) = "object" THEN params[i].param_json
                ELSE JObject(<<<<"type", params[i].param_json>>>>)
         IN  input_properties(params, i + 1,
                MapInsert(properties, params[i].name, param_schema))

\* the properties of the output schema: result_1 .. result_n
RECURSIVE output_properties(_, _, _)
output_properties(results, i, properties) ==
    IF i > Len(results) THEN properties
    ELSE output_properties(results, i + 1,
            MapInsert(properties, "result_" \o ToString(i), results[i]))

\* the tool whose input schema admits further properties
create_tool_open(function_name, params, results, component_description) ==
    [ name |-> function_name,
      description |-> IF IsSome(component_description)
                      THEN Unwrap(component_description) ELSE "",
      input_schema |->
          JObject(<< <<"type", JString("object")>>,
                     <<"properties", JObject(input_properties(params, 1, <<>>))>>,
                     <<"required", JStrings([i \in 1..Len(params) |-> params[i].name])>>,
                     <<"additionalProperties", JBool(TRUE)>> >>),
      output_schema |->
          IF results = <<>>
          THEN JObject(<< <<"type", JString("string")>>,
                          <<"description", JString("Execution status message")>> >>)
          ELSE LET properties == output_properties(results, 1, <<>>)
               IN  JObject(<< <<"type", JString("object")>>,
                              <<"properties", JObject(properties)>>,
                              <<"required",
                                JStrings([i \in 1..Len(properties) |-> properties[i][1]])>>,
                              <<"additionalProperties", JBool(FALSE)>> >>) ]

\* Create a tool from function information with proper JSON schema generation
create_tool_from_function(function_name, params, results, component_description) ==
    [ name |-> function_name,
      description |-> IF IsSome(component_description)
                      THEN Unwrap(component_description) ELSE "",
      input_schema |->
          JObject(<< <<"type", JString("object")>>,
                     <<"properties", JObject(input_properties(params, 1, <<>>))>>,
                     <<"required", JStrings([i \in 1..Len(params) |-> params[i].name])>>,
                     <<"additionalProperties", JBool(FALSE)>> >>),
      output_schema |->
          IF results = <<>>
          THEN JObject(<< <<"type", JString("string")>>,
                          <<"description", JString("Execution status message")>> >>)
          ELSE LET properties == output_properties(results, 1, <<>>)
               IN  JObject(<< <<"type", JString("object")>>,
                              <<"properties", JObject(properties)>>,
                              <<"required",
                                JStrings([i \in 1..Len(properties) |-> properties[i][1]])>>,
                              <<"additionalProperties", JBool(FALSE)>> >>) ]

\* the tools of the exports found under one top-level export: its functions,
\* then the functions of its interfaces, named by their key in the interface
RECURSIVE interface_tools(_, _, _)
interface_tools(interfaces, k, component_description) ==
    IF k > Len(interfaces) THEN <<>>
    ELSE [i \in 1..Len(interfaces[k].functions) |->
            create_tool_from_function(interfaces[k].functions[i][1],
                                      interfaces[k].functions[i][2].params,
                                      interfaces[k].functions[i][2].results,
                                      component_description)]
         \o interface_tools(interfaces, k + 1, component_description)

\* Get all tools from the component with component description included
RECURSIVE get_tools(_, _, _)
get_tools(tree, i, component_description) ==
    IF i > Len(tree) THEN <<>>
    ELSE LET exports == get_exports(tree[i][1], tree[i][2])
         IN  [k \in 1..Len(exports.functions) |->
                create_tool_from_function(exports.functions[k].name,
                                          exports.functions[k].params,
                                          exports.functions[k].results,
                                          component_description)]
             \o interface_tools(exports.interfaces, 1, component_description)
             \o get_tools(tree, i + 1, component_description)

(***************************************************************************)
(* linker.rs: the sandbox of one call.  The file system is a function from *)
(* path to [kind: "dir" | "file" | "missing", parent: Some(path) | None];  *)
(* preopen_ok is the host's answer to opening a directory.                 *)
(***************************************************************************)
AllPerms == "all"

Preopen(host, guest) ==
    [host |-> host, guest |-> guest, dir_perms |-> AllPerms, file_perms |-> AllPerms]

\* the loop that asks for read permissions alone on a read_only mount
RECURSIVE mount_volumes_enforcing(_, _, _, _, _)
mount_volumes_enforcing(volumes, i, fs, preopen_ok, preopens) ==
    IF i > Len(volumes) THEN Ok(preopens)
    ELSE LET mount == volumes[i]
             perms == IF mount.read_only THEN "read" ELSE AllPerms
         IN  IF fs[mount.host_path].kind = "missing"
             THEN Err("InvalidArguments", "Host path does not exist")
             ELSE IF fs[mount.host_path].kind # "dir" /\ ~IsSome(fs[mount.host_path].parent)
             THEN Err("InvalidArguments", "Cannot mount file without parent directory")
             ELSE IF ~preopen_ok THEN Err("Component", "preopened_dir")
             ELSE mount_volumes_enforcing(volumes, i + 1, fs, preopen_ok,
                     Append(preopens,
                            [ host |-> IF fs[mount.host_path].kind = "dir" THEN mount.host_path
                                       ELSE Unwrap(fs[mount.host_path].parent),
                              guest |-> mount.guest_path,
                              dir_perms |-> perms, file_perms |-> perms ]))

\* the loop over the volume mounts: the pre-opens added, or the first error
RECURSIVE mount_volumes(_, _, _, _, _)
mount_volumes(volumes, i, fs, preopen_ok, preopens) ==
    IF i > Len(volumes) THEN Ok(preopens)
    ELSE LET mount == volumes[i]
         IN  IF fs[mount.host_path].kind = "missing"
             THEN Err("InvalidArguments", "Host path does not exist")
             ELSE IF fs[mount.host_path].kind # "dir" /\ ~IsSome(fs[mount.host_path].parent)
             THEN Err("InvalidArguments", "Cannot mount file without parent directory")
             ELSE IF ~preopen_ok THEN Err("Component", "preopened_dir")
             ELSE mount_volumes(volumes, i + 1, fs, preopen_ok,
                     Append(preopens,
                            Preopen(IF fs[mount.host_path].kind = "dir" THEN mount.host_path
                                    ELSE Unwrap(fs[mount.host_path].parent),
                                    mount.guest_path)))

\* impl TryFrom<&ComponentConfig> for ComponentRunStates
try_from(config, fs, preopen_ok) ==
    LET cwd_checked ==
            IF IsSome(config.cwd)
            THEN IF fs[Unwrap(config.cwd)].kind = "missing"
                 THEN Err("InvalidArguments", "Working directory does not exist")
                 ELSE IF fs[Unwrap(config.cwd)].kind # "dir"
                 THEN Err("InvalidArguments", "Working directory path is not a directory")
                 ELSE IF ~preopen_ok THEN Err("Component", "preopened_dir")
                 ELSE Ok(<<Preopen(Unwrap(config.cwd), ".")>>)
            ELSE Ok(<<>>)
        mounted ==
            IF IsErr(cwd_checked) THEN cwd_checked
            ELSE mount_volumes(config.volumes, 1, fs, preopen_ok, cwd_checked[2])
    IN  IF IsErr(mounted) THEN mounted
        ELSE Ok([ stdio |-> "inherit", args |-> "inherit", preopens |-> mounted[2],
                  env |-> config.env, http |-> TRUE ])

\* Create a WASI context for component execution
create_wasi_context(config, fs, preopen_ok) == try_from(config, fs, preopen_ok)

(***************************************************************************)
(* executor.rs.                                                            *)
(***************************************************************************)
\* the lookup that finds no entry
get_component_config_none(profile, component_name) == None

\* Get component configuration for a specific component
get_component_config(profile, component_name) ==
    IF component_name \in DOMAIN profile.components
    THEN Some(profile.components[component_name])
    ELSE None

\* Get all tools from all components, iterating the map in the given order
RECURSIVE get_all_tools(_, _, _, _)
get_all_tools(components, profile, order, i) ==
    IF i > Len(order) THEN <<>>
    ELSE LET component_name == order[i]
             component_config == get_component_config(profile, component_name)
             component_description ==
                 IF IsSome(component_config) THEN Unwrap(component_config).description
                 ELSE None
             tools == get_tools(components[component_name].component, 1,
                                component_description)
         IN  [k \in 1..Len(tools) |->
                [tools[k] EXCEPT !.name = Dotted(component_name, tools[k].name)]]
             \o get_all_tools(components, profile, order, i + 1)

\* the loop that writes the arguments in the order they were given
place_arguments_in_order(positional_args, named_args, i, params) ==
    [k \in 1..Len(positional_args) |->
        IF k <= Len(named_args) THEN named_args[k][2] ELSE positional_args[k]]

\* the loop that writes every argument at the position of its parameter
RECURSIVE place_arguments(_, _, _, _)
place_arguments(positional_args, named_args, i, params) ==
    IF i > Len(named_args) THEN positional_args
    ELSE LET named == {k \in 1..Len(params) : params[k].name = named_args[i][1]}
             \* collecting (name, position) into a map keeps the last of equal names
             position == params[CHOOSE k \in named : \A l \in named : l <= k].position
         IN  place_arguments(
                IF named # {} /\ position < Len(positional_args)
                THEN [positional_args EXCEPT ![position + 1] = named_args[i][2]]
                ELSE positional_args,
                named_args, i + 1, params)

\* the mapping without the check for extra arguments
map_named_arguments_lenient(function_info, named_args) ==
    LET params == function_info.params
    IN  IF \E k \in 1..Len(params) : ~HasKey(named_args, params[k].name)
        THEN Err("InvalidArguments", "Missing required argument")
        ELSE Ok(place_arguments([k \in 1..Len(params) |-> JNull], named_args, 1, params))

\* Map named arguments to positional arguments based on function signature
map_named_to_positional_arguments(function_info, named_args) ==
    LET params == function_info.params
    IN  IF \E k \in 1..Len(params) : ~HasKey(named_args, params[k].name)
        THEN Err("InvalidArguments", "Missing required argument")
        ELSE IF \E i \in 1..Len(named_args) :
                    \A k \in 1..Len(params) : params[k].name # named_args[i][1]
        THEN Err("InvalidArguments", "Unexpected argument")
        ELSE Ok(place_arguments([k \in 1..Len(params) |-> JNull], named_args, 1, params))

\* Instance::get_export_index: the item exported under a name, if any
get_export(exports, name) ==
    IF HasKey(exports, name) THEN Some(Get(exports, name)) ELSE None

\* Instance::get_func: the exported item, if it is a function
get_func(item) ==
    IF item[1] = "ComponentFunc" THEN Ok(item)
    ELSE Err("Execution", "Failed to get function reference")

\* the resolver that splits the name at its first dot
get_function_from_instance_first(instance, function_info) ==
    IF ~contains_dot(function_info.name)
    THEN LET func_idx == get_export(instance, function_info.name)
         IN  IF IsSome(func_idx) THEN get_func(Unwrap(func_idx))
             ELSE Err("FunctionNotFound", "function")
    ELSE LET parts == Unwrap(split_once(function_info.name))
             interface_idx == get_export(instance, parts[1])
         IN  IF ~IsSome(interface_idx) THEN Err("InterfaceNotFound", "interface")
             ELSE LET func_idx ==
                         IF Unwrap(interface_idx)[1] = "ComponentInstance"
                         THEN get_export(Unwrap(interface_idx)[2], parts[2])
                         ELSE None
                  IN  IF IsSome(func_idx) THEN get_func(Unwrap(func_idx))
                      ELSE Err("FunctionNotFound", "interface.function")

\* Get function reference from instance using function info
get_function_from_instance(instance, function_info) ==
    IF ~contains_dot(function_info.name)
    THEN LET func_idx == get_export(instance, function_info.name)
         IN  IF IsSome(func_idx) THEN get_func(Unwrap(func_idx))
             ELSE Err("FunctionNotFound", "function")
    ELSE LET parts == Unwrap(rsplit_once(function_info.name))
             interface_idx == get_export(instance, parts[1])
         IN  IF ~IsSome(interface_idx) THEN Err("InterfaceNotFound", "interface")
             ELSE LET func_idx ==
                         IF Unwrap(interface_idx)[1] = "ComponentInstance"
                         THEN get_export(Unwrap(interface_idx)[2], parts[2])
                         ELSE None
                  IN  IF IsSome(func_idx) THEN get_func(Unwrap(func_idx))
                      ELSE Err("FunctionNotFound", "interface.function")

(***************************************************************************)
(* The host runtime: Func::call_async checks the arguments against the     *)
(* parameter types of the function before the guest runs.                  *)
(***************************************************************************)
RECURSIVE typecheck(_, _)
typecheck(v, t) ==
    CASE t[1] \in {"Bool", "S8", "U8", "S16", "U16", "S32", "U32", "S64", "U64",
                   "Float32", "Float64", "Char", "String"} -> v[1] = t[1]
      [] t[1] = "List" ->
            v[1] = "List" /\ \A i \in 1..Len(v[2]) : typecheck(v[2][i], t[2])
      [] t[1] = "Record" ->
            /\ v[1] = "Record"
            /\ Len(v[2]) = Len(t[2])
            /\ \A i \in 1..Len(t[2]) :
                  v[2][i][1] = t[2][i][1] /\ typecheck(v[2][i][2], t[2][i][2])
      [] t[1] = "Tuple" ->
            /\ v[1] = "Tuple"
            /\ Len(v[2]) = Len(t[2])
            /\ \A i \in 1..Len(t[2]) : typecheck(v[2][i], t[2][i])
      [] t[1] = "Variant" ->
            /\ v[1] = "Variant"
            /\ \E i \in 1..Len(t[2]) :
                  /\ t[2][i][1] = v[2]
                  /\ IsSome(t[2][i][2]) = IsSome(v[3])
                  /\ IsSome(v[3]) => typecheck(Unwrap(v[3]), Unwrap(t[2][i][2]))
      [] t[1] = "Enum" -> v[1] = "Enum" /\ \E i \in 1..Len(t[2]) : t[2][i] = v[2]
      [] t[1] = "Option" ->
            v[1] = "Option" /\ (IsSome(v[2]) => typecheck(Unwrap(v[2]), t[2]))
      [] t[1] = "Result" ->
            /\ v[1] = "Result"
            /\ LET ty == IF v[2][1] = "Ok" THEN t[2] ELSE t[3]
               IN  /\ IsSome(ty) = IsSome(v[2][2])
                   /\ IsSome(ty) => typecheck(Unwrap(v[2][2]), Unwrap(ty))
      [] t[1] = "Flags" ->
            /\ v[1] = "Flags"
            /\ \A i \in 1..Len(v[2]) : \E k \in 1..Len(t[2]) : t[2][k] = v[2][i]
      [] OTHER -> v[1] = "Resource"

\* the arguments are as many as the parameters and each has its type
typecheck_args(args, func) ==
    /\ Len(args) = Len(func[2])
    /\ \A i \in 1..Len(args) : typecheck(args[i], func[2][i][2])

(***************************************************************************)
(* The inputs of the conversion: the target types and the JSON values.     *)
(***************************************************************************)
RecXY == TRecord(<<<<"x", TString>>, <<"y", TU8>>>>)

EnumRG == TEnum(<<"red", "green">>)

Primitives ==
    {TBool, TS8, TU8, TS16, TU16, TS32, TU32, TS64, TU64, TFloat32, TFloat64, TChar, TString}

Types ==
    Primitives \cup
    { TList(TU8), TList(TString), RecXY, TRecord(<<<<"p", RecXY>>>>),
      TRecord(<<<<"b", TBool>>, <<"x", TString>>>>),
      TTuple(<<TS32, TString>>), EnumRG, TOption(TS32), TOption(TString),
      TResult(Some(TS32), Some(TString)), TFlags(<<"r", "w">>),
      TVariant(<<<<"none", None>>, <<"some", Some(TS32)>>>>), TOwn }

Exponents == {7, 8, 15, 16, 31, 32, 63, 64}

\* integer literals: small ones and the neighbourhood of every range limit
IntLiterals ==
    {Pos(Small(n)) : n \in {0, 1, 7, 42, 300}} \cup {Neg(Small(1))}
    \cup {Pos(Pow2(e)) : e \in Exponents} \cup {Pos(MagPred(Pow2(e))) : e \in Exponents}
    \cup {Neg(Pow2(e)) : e \in Exponents} \cup {Neg(MagSucc(Pow2(e))) : e \in Exponents}

Strings == {"hi", "red", "purple", "r", ""}

JsonAtoms ==
    {JNull, JBool(TRUE), JBool(FALSE), JNumber(Float("1.5")), JNumber(Float("0.1"))}
    \cup {JInt(x) : x \in IntLiterals} \cup {JString(s) : s \in Strings}

JsonElements ==
    {JNull, JBool(TRUE), JInt(Pos(Small(7))), JInt(Pos(Small(42))), JInt(Pos(Small(300))),
     JString("hi"), JString("r"), JString("w"), JString("red")}

SeqsUpTo(S, n) == UNION {[1..k -> S] : k \in 0..n}

JsonArrays ==
    {JArray(a) : a \in SeqsUpTo(JsonElements, MaxLen)}
    \cup {JArray(<<JArray(<<JInt(Pos(Small(7)))>>)>>)}

FieldKeys == {"x", "y", "z"}

FieldValues == {JString("hi"), JInt(Pos(Small(7))), JInt(Pos(Small(300))), JNull}

\* every order of every set of entries with distinct keys
EntrySeqs(keys, values) ==
    {e \in SeqsUpTo(keys \X values, Cardinality(keys)) :
        \A i, j \in 1..Len(e) : i # j => e[i][1] # e[j][1]}

ObjXY7 == JObject(<<<<"x", JString("hi")>>, <<"y", JInt(Pos(Small(7)))>>>>)

ObjYX7 == JObject(<<<<"y", JInt(Pos(Small(7)))>>, <<"x", JString("hi")>>>>)

ObjXY300 == JObject(<<<<"x", JString("hi")>>, <<"y", JInt(Pos(Small(300)))>>>>)

JsonObjects ==
    {JObject(e) : e \in EntrySeqs(FieldKeys, FieldValues)}
    \cup {JObject(<<<<"p", o>>>>) : o \in {ObjXY7, ObjYX7, ObjXY300}}
    \cup { JObject(<<<<"Ok", JInt(Pos(Small(7)))>>>>), JObject(<<<<"Err", JString("hi")>>>>),
           JObject(<<<<"some", JInt(Pos(Small(42)))>>>>),
           JObject(<<<<"b", JInt(Pos(Small(1)))>>, <<"x", JInt(Pos(Small(7)))>>>>),
           JObject(<<<<"b", JBool(TRUE)>>, <<"x", JString("hi")>>>>) }

JsonValues == JsonAtoms \cup JsonArrays \cup JsonObjects

(***************************************************************************)
(* The components of the profile, as the exports of their binaries, the    *)
(* host file system and the calls a client makes.                          *)
(***************************************************************************)
ComponentFunc(params, results) == <<"ComponentFunc", params, results>>

ComponentInstance(exports) == <<"ComponentInstance", exports>>

MathBinary ==
    << <<<<"add">>, ComponentFunc(<<<<"a", TS32>>, <<"b", TS32>>>>, <<TS32>>)>>,
       <<<<"noop">>, ComponentFunc(<<>>, <<>>)>>,
       <<<<"divmod">>, ComponentFunc(<<<<"n", TU8>>, <<"d", TU8>>>>, <<TU8, TU8>>)>>,
       <<<<"echo">>, ComponentFunc(<<<<"p", RecXY>>>>, <<RecXY>>)>> >>

NetBinary ==
    << << <<"wasi:http", "/", "handler">>,
          ComponentInstance(<< <<<<"handle">>, ComponentFunc(<<<<"req", TString>>>>, <<TString>>)>> >>) >> >>

ComponentConfig(cwd, volumes, description) ==
    [cwd |-> cwd, volumes |-> volumes, env |-> <<>>, description |-> description]

VolumeMount(host_path, guest_path, read_only) ==
    [host_path |-> host_path, guest_path |-> guest_path, read_only |-> read_only]

Profile ==
    [ components |->
        (<<"math">> :> ComponentConfig(None, <<>>, Some("arithmetic")))
        @@ (<<"net">> :> ComponentConfig(Some("/work"),
                            <<VolumeMount("/data/notes.txt", "/notes", TRUE),
                              VolumeMount("/scratch", "/tmp", FALSE)>>, None)) ]

Binary(component_name) ==
    IF component_name = <<"math">> THEN MathBinary ELSE NetBinary

\* the executor after the server loaded every component of the profile
Loaded ==
    [name \in DOMAIN Profile.components |-> new_with_engine(name, Binary(name))]

Dir == [kind |-> "dir", parent |-> None]

\* the host file system at the time of a call: /scratch may have been removed
FileSystems ==
    { ("/work" :> Dir) @@ ("/data/notes.txt" :> [kind |-> "file", parent |-> Some("/data")])
      @@ ("/data" :> Dir) @@ ("/scratch" :> [kind |-> scratch, parent |-> None])
        : scratch \in {"dir", "missing"} }

J(n) == JInt(Pos(Small(n)))

\* <<tool_name, arguments>> of the calls
CallInputs ==
    { << <<"math", Dot, "add">>, <<<<"b", J(42)>>, <<"a", J(7)>>>> >>,
      << <<"math", Dot, "add">>, <<<<"a", J(7)>>>> >>,
      << <<"math", Dot, "add">>, <<<<"a", J(7)>>, <<"b", J(42)>>, <<"c", J(1)>>>> >>,
      << <<"math", Dot, "add">>, <<<<"a", J(7)>>, <<"c", J(1)>>>> >>,
      << <<"math", Dot, "add">>, <<<<"a", JString("hi")>>, <<"b", J(42)>>>> >>,
      << <<"math", Dot, "noop">>, <<>> >>,
      << <<"math", Dot, "divmod">>, <<<<"n", J(7)>>, <<"d", J(1)>>>> >>,
      << <<"math", Dot, "echo">>, <<<<"p", ObjYX7>>>> >>,
      << <<"math", Dot, "sub">>, <<>> >>,
      << <<"math">>, <<>> >>,
      << <<"calc", Dot, "add">>, <<<<"a", J(7)>>, <<"b", J(42)>>>> >>,
      << <<"net", Dot, "wasi:http", "/", "handler", Dot, "handle">>,
         <<<<"req", JString("hi")>>>> >>,
      << <<"net", Dot, "handle">>, <<<<"req", JString("hi")>>>> >> }

\* the values of a type a guest function returns
RECURSIVE Inhabitants(_)
Inhabitants(t) ==
    CASE t = TS32 -> {VInt("S32", Pos(Small(49)))}
      [] t = TU8 -> {VInt("U8", Pos(Small(7)))}
      [] t = TString -> {VString("hi")}
      [] t[1] = "Record" ->
            {VRecord([i \in 1..Len(t[2]) |-> <<t[2][i][1], vs[i]>>]) :
                vs \in {vs \in [1..Len(t[2]) -> UNION {Inhabitants(t[2][i][2]) : i \in 1..Len(t[2])}] :
                           \A i \in 1..Len(t[2]) : vs[i] \in Inhabitants(t[2][i][2])}}
      [] OTHER -> {VBool(TRUE)}

\* the result values a guest function may write: one of its type per result
GuestReturns(func) ==
    {rets \in [1..Len(func[3]) -> UNION {Inhabitants(func[3][i]) : i \in 1..Len(func[3])}] :
        \A i \in 1..Len(func[3]) : rets[i] \in Inhabitants(func[3][i])}

(***************************************************************************)
(* State.                                                                  *)
(***************************************************************************)
VARIABLES
    mJson,   \* the JSON value to marshal
    mType,   \* the declared type of the parameter it is marshalled for
    mPc,     \* "input", "marshalled", "demarshalled"; "off" under Spec
    mOut,    \* the Result of convert_args_to_wasm_values
    mBack,   \* the Result of convert_wasm_results_to_json on mOut's values
    components, \* WasmExecutor.components: name -> WasmComponent
    profile,    \* WasmExecutor.profile: the configuration the server loaded
    calls,      \* the calls of execute_function, each at its await point
    listed,     \* the Result of the last get_all_tools
    loading     \* ServerManager::load: its position, tasks and Result

vars == <<mJson, mType, mPc, mOut, mBack, components, profile, calls, listed, loading>>

NoResult == <<"Pending">>

\* the state of a load: pc is "start", "join_all" or "done"; tasks maps the
\* names of the spawned tasks to their Results; result is what load returned.
\* For a caller that adds components itself, tasks is the sequence of the
\* <<name, component>> it has added
Loading(pc, tasks, result) == [pc |-> pc, tasks |-> tasks, result |-> result]

\* a call that has not been made
Idle ==
    [ pc |-> "idle", tool_name |-> <<>>, arguments |-> <<>>, component_name |-> <<>>,
      function_info |-> None, steps |-> <<>>, state |-> None, store |-> "none",
      func |-> None, args |-> <<>>, result |-> NoResult ]

(***************************************************************************)
(* TransformSpec: marshal one argument, then demarshal what was produced   *)
(* (the guest function echoes its argument).                               *)
(***************************************************************************)
TransformInit ==
    /\ mJson \in JsonValues
    /\ mType \in Types
    /\ mPc = "input"
    /\ mOut = NoResult
    /\ mBack = NoResult
    /\ components = Loaded
    /\ profile = Profile
    /\ calls = [c \in 1..MaxCalls |-> Idle]
    /\ listed = NoResult
    /\ loading = Loading("done", <<>>, NoResult)

Marshal ==
    /\ mPc = "input"
    /\ mOut' = convert_args_to_wasm_values(<<mJson>>, <<ParameterInfo("arg", mType, 0)>>)
    /\ mPc' = "marshalled"
    /\ UNCHANGED <<mJson, mType, mBack, components, profile, calls, listed, loading>>

Demarshal ==
    /\ mPc = "marshalled"
    /\ IsOk(mOut)
    /\ mBack' = convert_wasm_results_to_json(mOut[2])
    /\ mPc' = "demarshalled"
    /\ UNCHANGED <<mJson, mType, mOut, components, profile, calls, listed, loading>>

TransformNext == Marshal \/ Demarshal

TransformSpec == TransformInit /\ [][TransformNext]_vars

(***************************************************************************)
(* Spec: the executor serving calls.  A call is one run of                 *)
(* execute_function; it yields at instantiate_async and at call_async, so  *)
(* calls interleave there.  `steps` is the history of what the call did    *)
(* and `store` the life of its Store, which is dropped when                *)
(* execute_function returns.                                               *)
(***************************************************************************)
\* execute_function returns `result` after the steps `done`
\* the return that keeps the store of the call
Returned_retaining(call, done, result) ==
    [call EXCEPT !.pc = "returned", !.steps = @ \o done, !.result = result]

Returned(call, done, result) ==
    [call EXCEPT !.pc = "returned", !.steps = @ \o done, !.result = result,
                 !.store = IF @ = "live" THEN "dropped" ELSE @]

\* create_component_instance up to instantiate_async
create_component_instance(call, component, config, fs, preopen_ok) ==
    LET component_config == get_component_config(config, component.name)
    IN  IF ~IsSome(component_config)
        THEN Returned(call, <<"get_component_config">>,
                      Err("InvalidArguments", "Component not found in profile"))
        ELSE LET state == create_wasi_context(Unwrap(component_config), fs, preopen_ok)
             IN  IF IsErr(state)
                 THEN Returned(call, <<"get_component_config", "create_wasi_context">>, state)
                 ELSE [call EXCEPT !.pc = "instantiate_async",
                                   !.steps = @ \o <<"get_component_config",
                                                    "create_wasi_context", "Store::new">>,
                                   !.state = Some(state[2]),
                                   !.store = "live"]

\* execute_function up to its first await
execute_function(executor, config, tool_name, arguments, function_info, fs, preopen_ok) ==
    LET call == [Idle EXCEPT !.tool_name = tool_name, !.arguments = arguments]
        parsed == split_once(tool_name)
    IN  IF ~IsSome(parsed)
        THEN Returned(call, <<"split_once">>,
                      Err("InvalidArguments", "Tool name must be in format"))
        ELSE IF Unwrap(parsed)[1] \notin DOMAIN executor
        THEN Returned(call, <<"split_once", "components.get">>,
                      Err("ComponentNotFound", "component"))
        ELSE IF ~IsSome(function_info)
        THEN Returned([call EXCEPT !.component_name = Unwrap(parsed)[1]],
                      <<"split_once", "components.get", "get_function_info">>,
                      Err("FunctionNotFound", "function"))
        ELSE create_component_instance(
                [call EXCEPT !.component_name = Unwrap(parsed)[1],
                             !.function_info = function_info,
                             !.steps = <<"split_once", "components.get", "get_function_info">>],
                executor[Unwrap(parsed)[1]], config, fs, preopen_ok)

\* execute_function_call up to call_async
execute_function_call(call, func, arguments, function_info) ==
    LET args == convert_args_to_wasm_values(arguments, function_info.params)
    IN  IF IsErr(args) THEN Returned(call, <<"convert_args_to_wasm_values">>, args)
        ELSE [call EXCEPT !.pc = "call_async",
                          !.steps = @ \o <<"convert_args_to_wasm_values">>,
                          !.func = Some(func),
                          !.args = args[2]]

\* execute_function from the end of instantiate_async to call_async
after_instantiate(call, instance, instantiated) ==
    IF ~instantiated
    THEN Returned(call, <<"instantiate_async">>,
                  Err("Execution", "Failed to instantiate component"))
    ELSE LET function_info == Unwrap(call.function_info)
             func == get_function_from_instance(instance, function_info)
             positional_args ==
                 map_named_to_positional_arguments(function_info, call.arguments)
         IN  IF IsErr(func)
             THEN Returned(call, <<"instantiate_async", "get_function_from_instance">>, func)
             ELSE IF IsErr(positional_args)
             THEN Returned(call, <<"instantiate_async", "get_function_from_instance",
                                   "map_named_to_positional_arguments">>, positional_args)
             ELSE execute_function_call(
                     [call EXCEPT !.steps = @ \o <<"instantiate_async",
                                                   "get_function_from_instance",
                                                   "map_named_to_positional_arguments">>],
                     func[2], positional_args[2], function_info)

\* execute_function from the end of call_async: outcome is None when the
\* call failed (arguments of the wrong type, or a trap of the guest), else
\* the results the guest wrote
after_call(call, outcome) ==
    IF ~IsSome(outcome)
    THEN Returned(call, <<"call_async">>, Err("Component", "call failed"))
    ELSE IF Unwrap(outcome) = <<>>
    THEN Returned(call, <<"call_async">>,
                  Ok(JString("Successfully executed (no return value)")))
    ELSE Returned(call, <<"call_async", "convert_wasm_results_to_json">>,
                  convert_wasm_results_to_json(Unwrap(outcome)))

Init ==
    /\ mJson = JNull
    /\ mType = TBool
    /\ mPc = "off"
    /\ mOut = NoResult
    /\ mBack = NoResult
    /\ components = Loaded
    /\ profile = Profile
    /\ calls = [c \in 1..MaxCalls |-> Idle]
    /\ listed = NoResult
    /\ loading = Loading("done", <<>>, NoResult)

\* the call that drops the catalog when it fails before instantiate_async
StartCall_evicting(c) ==
    /\ calls[c].pc = "idle"
    /\ \E input \in CallInputs, fs \in FileSystems, preopen_ok \in BOOLEAN :
          \E function_info \in
                (IF IsSome(split_once(input[1]))
                    /\ Unwrap(split_once(input[1]))[1] \in DOMAIN components
                 THEN get_function_info(components[Unwrap(split_once(input[1]))[1]],
                                        Unwrap(split_once(input[1]))[2])
                 ELSE {None}) :
             /\ calls' = [calls EXCEPT ![c] =
                             execute_function(components, profile, input[1], input[2],
                                              function_info, fs, preopen_ok)]
             /\ components' = IF calls'[c].pc = "returned"
                              THEN [name \in {} |-> components[name]]
                              ELSE components
    /\ UNCHANGED <<mJson, mType, mPc, mOut, mBack, profile, listed, loading>>

\* a client calls a tool: execute_function runs to instantiate_async
StartCall(c) ==
    /\ calls[c].pc = "idle"
    /\ \E input \in CallInputs, fs \in FileSystems, preopen_ok \in BOOLEAN :
          \E function_info \in
                (IF IsSome(split_once(input[1]))
                    /\ Unwrap(split_once(input[1]))[1] \in DOMAIN components
                 THEN get_function_info(components[Unwrap(split_once(input[1]))[1]],
                                        Unwrap(split_once(input[1]))[2])
                 ELSE {None}) :
             calls' = [calls EXCEPT ![c] =
                          execute_function(components, profile, input[1], input[2],
                                           function_info, fs, preopen_ok)]
    /\ UNCHANGED <<mJson, mType, mPc, mOut, mBack, components, profile, listed, loading>>

\* instantiate_async completes, with an instance or an error of the host
Instantiate(c) ==
    /\ calls[c].pc = "instantiate_async"
    /\ \E instantiated \in BOOLEAN :
          calls' = [calls EXCEPT ![c] =
                       after_instantiate(calls[c],
                                         components[calls[c].component_name].component,
                                         instantiated)]
    /\ UNCHANGED <<mJson, mType, mPc, mOut, mBack, components, profile, listed, loading>>

\* call_async completes
Invoke(c) ==
    /\ calls[c].pc = "call_async"
    /\ \E outcome \in
            (IF typecheck_args(calls[c].args, Unwrap(calls[c].func))
             THEN {None} \cup {Some(rets) : rets \in GuestReturns(Unwrap(calls[c].func))}
             ELSE {None}) :
          calls' = [calls EXCEPT ![c] = after_call(calls[c], outcome)]
    /\ UNCHANGED <<mJson, mType, mPc, mOut, mBack, components, profile, listed, loading>>

\* the orders in which a HashMap with these keys may be iterated
Orders(keys) ==
    {order \in [1..Cardinality(keys) -> keys] :
        \A i, j \in 1..Cardinality(keys) : i # j => order[i] # order[j]}

\* a client lists the tools
ListTools ==
    /\ \E order \in Orders(DOMAIN components) :
          listed' = Ok(get_all_tools(components, profile, order, 1))
    /\ UNCHANGED <<mJson, mType, mPc, mOut, mBack, components, profile, calls, loading>>

Next ==
    \/ \E c \in 1..MaxCalls : StartCall(c)
    \/ \E c \in 1..MaxCalls : Instantiate(c)
    \/ \E c \in 1..MaxCalls : Invoke(c)
    \/ ListTools

Spec == Init /\ [][Next]_vars

(***************************************************************************)
(* Vocabulary of the properties of the conversion.                         *)
(***************************************************************************)
\* the value a JSON number denotes, whatever its serde_json representation
NumVal(n) == IF n[1] = "Float" THEN n[2] ELSE <<"int", n[2]>>

\* equality of JSON values: numbers by value, objects whatever the order of
\* their entries
RECURSIVE JsonEq(_, _)
JsonEq(a, b) ==
    /\ Kind(a) = Kind(b)
    /\ CASE Kind(a) = "number" -> NumVal(a[2]) = NumVal(b[2])
         [] Kind(a) = "array" ->
                /\ Len(a[2]) = Len(b[2])
                /\ \A i \in 1..Len(a[2]) : JsonEq(a[2][i], b[2][i])
         [] Kind(a) = "object" ->
                /\ Keys(a[2]) = Keys(b[2])
                /\ \A k \in Keys(a[2]) : JsonEq(Get(a[2], k), Get(b[2], k))
         [] OTHER -> a = b

SignedTypes == {"S8", "S16", "S32", "S64"}

UnsignedTypes == {"U8", "U16", "U32", "U64"}

Width(t) ==
    CASE t[1] \in {"S8", "U8"} -> 8
      [] t[1] \in {"S16", "U16"} -> 16
      [] t[1] \in {"S32", "U32"} -> 32
      [] t[1] \in {"S64", "U64"} -> 64

\* -2^(W-1) <= x <= 2^(W-1) - 1 for sW, 0 <= x <= 2^W - 1 for uW
InRange(x, t) ==
    IF t[1] \in SignedTypes
    THEN IntLe(Neg(Pow2(Width(t) - 1)), x) /\ IntLe(x, Pos(MagPred(Pow2(Width(t) - 1))))
    ELSE ~IsNeg(x) /\ IntLe(x, Pos(MagPred(Pow2(Width(t)))))

\* a float type holds the number exactly
ExactFloat(j) ==
    /\ Kind(j) = "number"
    /\ IF j[2][1] = "Float" THEN j[2] = Float("1.5")
       ELSE MagLe(MagOf(j[2][2]), Small(2^24))

\* the types the round trip is claimed for
RoundTripTypes ==
    {t \in Types : t[1] \notin {"Variant", "Own"}}

\* the outcome of marshalling the one argument
Marshalled == mPc \in {"marshalled", "demarshalled"}

\* the JSON kind the marshaller must insist on for a target type
RequiredKind(t) ==
    CASE t[1] \in {"Record", "Variant", "Result"} -> {"object"}
      [] t[1] \in {"List", "Tuple", "Flags"} -> {"array"}
      [] t[1] \in {"Enum", "String", "Char"} -> {"string"}
      [] t[1] = "Bool" -> {"bool"}
      [] OTHER -> {"null", "bool", "number", "string", "array", "object"}

\* the JSON value has the wrong kind for the type, at the top or in a
\* declared field of a record
RECURSIVE WrongKind(_, _)
WrongKind(j, t) ==
    \/ Kind(j) \notin RequiredKind(t)
    \/ /\ t[1] = "Record"
       /\ Kind(j) = "object"
       /\ \E i \in 1..Len(t[2]) :
            /\ HasKey(j[2], t[2][i][1])
            /\ WrongKind(Get(j[2], t[2][i][1]), t[2][i][2])

\* the marshalling of one value against one type, as a call performs it
M(j, t) ==
    LET r == convert_args_to_wasm_values(<<j>>, <<ParameterInfo("arg", t, 0)>>)
    IN  IF IsErr(r) THEN r ELSE Ok(r[2][1])

(***************************************************************************)
(* C3.  Round trip: demarshalling what the marshaller produced for an      *)
(* accepted JSON value gives that JSON value back, for primitives held     *)
(* exactly, lists, records, tuples, enums, flags, options (null included)  *)
(* and results.                                                            *)
(***************************************************************************)
C3_RoundTrip ==
    (/\ mPc = "demarshalled"
     /\ mType \in RoundTripTypes
     /\ mType[1] \in {"Float32", "Float64"} => ExactFloat(mJson))
    => IsOk(mBack) /\ JsonEq(mBack[2], mJson)

(***************************************************************************)
(* C4.  The marshaller dispatches on the target type: a JSON value of the  *)
(* wrong kind for the type (not an object for record, variant, result; not *)
(* an array for list, tuple, flags; not a string for enum, string, char;   *)
(* not a boolean for bool), at the top or in a declared record field, is   *)
(* rejected.                                                               *)
(***************************************************************************)
C4_DispatchOnType ==
    (Marshalled /\ WrongKind(mJson, mType)) => IsErr(mOut)

(***************************************************************************)
(* C5.  Against option<T>, null marshals to None and any other value j to  *)
(* Some(M(j, T)), failing iff M(j, T) fails; an echoed None demarshals to  *)
(* null.                                                                   *)
(***************************************************************************)
C5_Option ==
    (Marshalled /\ mType[1] = "Option") =>
        /\ mJson = JNull => mOut = Ok(<<VOption(None)>>)
        /\ mJson # JNull =>
              /\ IsErr(mOut) <=> IsErr(M(mJson, mType[2]))
              /\ IsOk(mOut) => mOut[2][1] = VOption(Some(M(mJson, mType[2])[2]))
        /\ (mPc = "demarshalled" /\ mJson = JNull) => mBack = Ok(JNull)

(***************************************************************************)
(* C6.  Against list<T>, a JSON array is marshalled element by element     *)
(* against T: it fails iff an element fails, and the produced elements are *)
(* the values of the elements at type T.                                   *)
(***************************************************************************)
C6_ListElements ==
    (Marshalled /\ mType[1] = "List" /\ Kind(mJson) = "array") =>
        /\ IsErr(mOut) <=> \E i \in 1..Len(mJson[2]) : IsErr(M(mJson[2][i], mType[2]))
        /\ IsOk(mOut) =>
              mOut[2][1] = VList([i \in 1..Len(mJson[2]) |-> M(mJson[2][i], mType[2])[2]])

(***************************************************************************)
(* C7.  A JSON integer given as an argument of type sW or uW is accepted   *)
(* iff it lies in the range of the type; accepted, the value is that       *)
(* integer at the declared width; rejected, the error is InvalidArguments. *)
(***************************************************************************)
C7_IntegerRange ==
    \A x \in IntLiterals :
        (Marshalled /\ mType[1] \in SignedTypes \cup UnsignedTypes /\ mJson = JInt(x)) =>
            /\ IsOk(mOut) <=> InRange(x, mType)
            /\ IsOk(mOut) => mOut[2] = <<VInt(mType[1], x)>>
            /\ IsErr(mOut) => ErrKind(mOut) = "InvalidArguments"

\* the largest s32 was accepted as an s32
C7_Witness ==
    /\ mPc = "marshalled"
    /\ mType = TS32
    /\ mJson = JInt(I32_MAX)
    /\ mOut = Ok(<<VInt("S32", Pos(Mag(0, 0, 0, 32767, 65535)))>>)

(***************************************************************************)
(* C8.  A JSON object is accepted for a record type only if its keys are   *)
(* exactly the declared fields; the record produced lists the fields in    *)
(* declaration order, each the marshalling of its entry against the        *)
(* declared field type; a u8 field holding 300 is rejected as              *)
(* InvalidArguments citing the u8 range.                                   *)
(***************************************************************************)
FieldNames(t) == [i \in 1..Len(t[2]) |-> t[2][i][1]]

C8_Record ==
    (Marshalled /\ mType[1] = "Record" /\ Kind(mJson) = "object") =>
        /\ IsOk(mOut) =>
              /\ Keys(mJson[2]) = {FieldNames(mType)[i] : i \in 1..Len(mType[2])}
              /\ mOut[2][1][1] = "Record"
              /\ [i \in 1..Len(mOut[2][1][2]) |-> mOut[2][1][2][i][1]] = FieldNames(mType)
              /\ \A i \in 1..Len(mType[2]) :
                    LET field == M(Get(mJson[2], mType[2][i][1]), mType[2][i][2])
                    IN  IsOk(field) /\ mOut[2][1][2][i][2] = field[2]
        /\ (/\ mType = RecXY
            /\ Keys(mJson[2]) = {"x", "y"}
            /\ Get(mJson[2], "x") = JString("hi")
            /\ Get(mJson[2], "y") = JInt(Pos(Small(300))))
           => mOut = Err("InvalidArguments", "exceeds u8 range")

(***************************************************************************)
(* C9.  Against tuple<T_0..T_{n-1}> only a JSON array of length n is       *)
(* accepted, and what is produced is a tuple of the elements at their      *)
(* types.                                                                  *)
(***************************************************************************)
C9_Tuple ==
    (Marshalled /\ mType[1] = "Tuple" /\ IsOk(mOut)) =>
        /\ Kind(mJson) = "array"
        /\ Len(mJson[2]) = Len(mType[2])
        /\ mOut[2][1] = VTuple([i \in 1..Len(mType[2]) |-> M(mJson[2][i], mType[2][i])[2]])

(***************************************************************************)
(* C10.  Against enum{c_1..c_k} a JSON string is accepted iff it is one of *)
(* the case names, and then the enum value of that name is produced.       *)
(***************************************************************************)
C10_Enum ==
    (Marshalled /\ mType[1] = "Enum" /\ Kind(mJson) = "string") =>
        /\ IsOk(mOut) <=> \E i \in 1..Len(mType[2]) : mType[2][i] = mJson[2]
        /\ IsOk(mOut) => mOut[2][1] = VEnum(mJson[2])

(***************************************************************************)
(* Vocabulary of the properties of calls.                                  *)
(***************************************************************************)
\* mapping and marshalling the arguments
ArgumentSteps == {"map_named_to_positional_arguments", "convert_args_to_wasm_values"}

\* building the sandbox, creating the store, instantiating the component
SandboxSteps == {"create_wasi_context", "Store::new", "instantiate_async"}

\* the error kinds of the taxonomy
Taxonomy ==
    {"ComponentNotFound", "InterfaceNotFound", "FunctionNotFound", "InvalidArguments",
     "Execution", "Io", "Json", "Mcp", "Component"}

\* JSON Schema: the instance has the type of that name
HasJsonType(j, name) ==
    CASE name = "boolean" -> Kind(j) = "bool"
      [] name = "integer" -> Kind(j) = "number" /\ j[2][1] \in {"PosInt", "NegInt"}
      [] OTHER -> Kind(j) = name

\* JSON Schema: the instance j is valid against the schema; a schema that is
\* a bare type name is read as {"type": name}
RECURSIVE Valid(_, _)
Valid(j, schema) ==
    IF Kind(schema) = "string" THEN HasJsonType(j, schema[2])
    ELSE LET e == schema[2]
         IN
         /\ HasKey(e, "type") => HasJsonType(j, Get(e, "type")[2])
         /\ HasKey(e, "const") => j = Get(e, "const")
         /\ HasKey(e, "enum") =>
               \E i \in 1..Len(Get(e, "enum")[2]) : j = Get(e, "enum")[2][i]
         /\ HasKey(e, "oneOf") =>
               Cardinality({i \in 1..Len(Get(e, "oneOf")[2]) :
                               Valid(j, Get(e, "oneOf")[2][i])}) = 1
         /\ Kind(j) = "object" =>
               /\ HasKey(e, "required") =>
                     \A i \in 1..Len(Get(e, "required")[2]) :
                        HasKey(j[2], Get(e, "required")[2][i][2])
               /\ HasKey(e, "properties") =>
                     /\ \A k \in Keys(j[2]) \cap Keys(Get(e, "properties")[2]) :
                           Valid(Get(j[2], k), Get(Get(e, "properties")[2], k))
                     /\ (HasKey(e, "additionalProperties")
                         /\ Get(e, "additionalProperties") = JBool(FALSE))
                        => Keys(j[2]) \subseteq Keys(Get(e, "properties")[2])
         /\ Kind(j) = "array" =>
               /\ HasKey(e, "items") =>
                     IF Kind(Get(e, "items")) = "array"
                     THEN \A i \in 1..Len(j[2]) :
                             i <= Len(Get(e, "items")[2])
                                => Valid(j[2][i], Get(e, "items")[2][i])
                     ELSE \A i \in 1..Len(j[2]) : Valid(j[2][i], Get(e, "items"))
               /\ HasKey(e, "minItems") => Get(e, "minItems")[2][2][2][5] <= Len(j[2])
               /\ HasKey(e, "maxItems") => Len(j[2]) <= Get(e, "maxItems")[2][2][2][5]
               /\ (HasKey(e, "uniqueItems") /\ Get(e, "uniqueItems") = JBool(TRUE))
                  => \A i, k \in 1..Len(j[2]) : i # k => j[2][i] # j[2][k]

(***************************************************************************)
(* C1.  Within a call the mapping and the marshalling of the arguments     *)
(* come before the sandbox is built, the store created and the component   *)
(* instantiated; so a call that fails in the mapping or the marshalling of *)
(* its arguments returns without a sandbox, a store or an instance.        *)
(***************************************************************************)
C1_ArgumentsBeforeSandbox ==
    \A c \in 1..MaxCalls :
        LET steps == calls[c].steps
        IN  /\ \A i, k \in 1..Len(steps) :
                  (steps[i] \in ArgumentSteps /\ steps[k] \in SandboxSteps) => i < k
            /\ (/\ calls[c].pc = "returned"
                /\ IsErr(calls[c].result)
                /\ steps[Len(steps)] \in ArgumentSteps)
               => /\ \A k \in 1..Len(steps) : steps[k] \notin SandboxSteps
                  /\ calls[c].store = "none"
                  /\ ~IsSome(calls[c].state)

(***************************************************************************)
(* C2.  A call of a listed tool whose argument object is valid against the *)
(* inputSchema of the tool fails with an error of the taxonomy or returns  *)
(* a JSON value valid against the outputSchema of the tool.                *)
(***************************************************************************)
C2_OutputMatchesSchema ==
    IsOk(listed) =>
        \A c \in 1..MaxCalls : \A k \in 1..Len(listed[2]) :
            (/\ calls[c].pc = "returned"
             /\ calls[c].tool_name = listed[2][k].name
             /\ Valid(JObject(calls[c].arguments), listed[2][k].input_schema))
            => IF IsErr(calls[c].result)
               THEN ErrKind(calls[c].result) \in Taxonomy
               ELSE Valid(calls[c].result[2], listed[2][k].output_schema)

(***************************************************************************)
(* C11.  The argument mapping accepts the named arguments iff their keys   *)
(* are exactly the declared parameter names: a declared parameter that is  *)
(* absent makes the call fail with InvalidArguments (missing argument), a  *)
(* key that is no parameter with InvalidArguments (unexpected argument),   *)
(* and no arguments for a function without parameters are accepted.        *)
(***************************************************************************)
\* the call has run the argument mapping
Mapped(call) ==
    \E i \in 1..Len(call.steps) : call.steps[i] = "map_named_to_positional_arguments"

ParameterNames(function_info) ==
    {function_info.params[k].name : k \in 1..Len(function_info.params)}

C11_ArgumentMapping ==
    \A c \in 1..MaxCalls :
        Mapped(calls[c]) =>
            LET names == ParameterNames(Unwrap(calls[c].function_info))
                keys == Keys(calls[c].arguments)
            IN  /\ names \ keys # {} =>
                      /\ calls[c].pc = "returned"
                      /\ IsErr(calls[c].result)
                      /\ ErrKind(calls[c].result) = "InvalidArguments"
                      /\ ErrDetail(calls[c].result)
                            \in {"Missing required argument", "Unexpected argument"}
                      /\ keys \subseteq names =>
                            ErrDetail(calls[c].result) = "Missing required argument"
                /\ (names \subseteq keys /\ keys \ names # {}) =>
                      /\ calls[c].pc = "returned"
                      /\ calls[c].result = Err("InvalidArguments", "Unexpected argument")
                /\ keys = names =>
                      \E i \in 1..Len(calls[c].steps) :
                          calls[c].steps[i] = "convert_args_to_wasm_values"

\* a call with the extra argument c was refused, and a call of noop without
\* arguments went past the mapping
C11_Witness ==
    /\ \E c \in 1..MaxCalls :
          /\ Keys(calls[c].arguments) = {"a", "b", "c"}
          /\ calls[c].result = Err("InvalidArguments", "Unexpected argument")
    /\ \E c \in 1..MaxCalls :
          /\ calls[c].tool_name = <<"math", Dot, "noop">>
          /\ calls[c].arguments = <<>>
          /\ calls[c].pc = "call_async"

(***************************************************************************)
(* C12.  A call resolves the tool name in this order: a name without "."   *)
(* fails with InvalidArguments; else a component name that is not in the   *)
(* catalog fails with ComponentNotFound; else a function key found neither *)
(* in an interface of that component nor among its standalone functions    *)
(* fails with FunctionNotFound; else the function found is one of an       *)
(* interface if an interface has the key, the standalone one if not.       *)
(***************************************************************************)
\* the functions an interface of the component has under the key
InInterfaces(component, key) ==
    {Get(component.interfaces[k][2].functions, key) :
        k \in {k \in 1..Len(component.interfaces) :
                  HasKey(component.interfaces[k][2].functions, key)}}

C12_NameResolution ==
    \A c \in 1..MaxCalls :
        calls[c].pc # "idle" =>
            LET name == calls[c].tool_name
                parts == Unwrap(split_once(name))
            IN  IF ~contains_dot(name)
                THEN /\ calls[c].pc = "returned"
                     /\ IsErr(calls[c].result)
                     /\ ErrKind(calls[c].result) = "InvalidArguments"
                     /\ calls[c].steps = <<"split_once">>
                ELSE IF parts[1] \notin DOMAIN components
                THEN /\ calls[c].pc = "returned"
                     /\ IsErr(calls[c].result)
                     /\ ErrKind(calls[c].result) = "ComponentNotFound"
                     /\ calls[c].steps = <<"split_once", "components.get">>
                ELSE IF /\ InInterfaces(components[parts[1]], parts[2]) = {}
                        /\ ~HasKey(components[parts[1]].functions, parts[2])
                THEN /\ calls[c].pc = "returned"
                     /\ IsErr(calls[c].result)
                     /\ ErrKind(calls[c].result) = "FunctionNotFound"
                     /\ calls[c].steps = <<"split_once", "components.get", "get_function_info">>
                ELSE /\ IsSome(calls[c].function_info)
                     /\ Len(calls[c].steps) > 3
                     /\ IF InInterfaces(components[parts[1]], parts[2]) # {}
                        THEN Unwrap(calls[c].function_info)
                                \in InInterfaces(components[parts[1]], parts[2])
                        ELSE Unwrap(calls[c].function_info)
                                = Get(components[parts[1]].functions, parts[2])

\* a call of an unknown component and a call of an unknown function of a
\* known component have returned their errors
C12_Witness ==
    /\ \E c \in 1..MaxCalls :
          /\ calls[c].tool_name = <<"calc", Dot, "add">>
          /\ ErrKind(calls[c].result) = "ComponentNotFound"
    /\ \E c \in 1..MaxCalls :
          /\ calls[c].tool_name = <<"math", Dot, "sub">>
          /\ ErrKind(calls[c].result) = "FunctionNotFound"

(***************************************************************************)
(* C13.  Every failure of the host runtime during a call is reported with  *)
(* the kind Execution: the failure to instantiate the component, and the   *)
(* failure of the invoked function itself (a trap, or arguments the        *)
(* function's type refuses).                                               *)
(***************************************************************************)
\* the call ended in an error at an await of the host runtime
RuntimeFailure(call) ==
    /\ call.pc = "returned"
    /\ IsErr(call.result)
    /\ call.steps # <<>>
    /\ call.steps[Len(call.steps)] \in {"instantiate_async", "call_async"}

C13_RuntimeFailureIsExecution ==
    \A c \in 1..MaxCalls :
        RuntimeFailure(calls[c]) => ErrKind(calls[c].result) = "Execution"

(***************************************************************************)
(* list_tools over catalogs.  The server loads one component per key of    *)
(* the profile (server.rs), and add_component accepts any name; the keys   *)
(* of a YAML mapping are arbitrary strings.                                *)
(***************************************************************************)
\* a component that exports the function handle at its top level
HandleBinary ==
    << <<<<"handle">>, ComponentFunc(<<<<"req", TString>>>>, <<TString>>)>> >>

Binaries == {MathBinary, NetBinary, HandleBinary}

HandlerName == <<"net", Dot, "wasi:http", "/", "handler">>

ComponentNames == {<<"math">>, <<"net">>, HandlerName}

\* the executors add_component can build from these names and binaries
Catalogs ==
    UNION {[names -> Binaries] : names \in (SUBSET ComponentNames) \ {{}}}

\* the profile with an entry for the third component
WideProfile ==
    [ components |->
        Profile.components
        @@ (HandlerName :> ComponentConfig(None, <<>>, Some("handler"))) ]

Profiles == {Profile, WideProfile}

CatalogInit ==
    /\ mJson = JNull
    /\ mType = TBool
    /\ mPc = "off"
    /\ mOut = NoResult
    /\ mBack = NoResult
    /\ \E catalog \in Catalogs :
          components = [name \in DOMAIN catalog |-> new_with_engine(name, catalog[name])]
    /\ profile \in Profiles
    /\ calls = [c \in 1..MaxCalls |-> Idle]
    /\ listed = NoResult
    /\ loading = Loading("done", <<>>, NoResult)

CatalogNext == ListTools

CatalogSpec == CatalogInit /\ [][CatalogNext]_vars

(***************************************************************************)
(* C14.  Prefixing is free of conflicts: in the list list_tools returns,   *)
(* over a catalog of components with distinct names, no two entries (the   *)
(* tools of two distinct pairs of a component and a function) have the     *)
(* same tool name.                                                         *)
(***************************************************************************)
C14_ConflictFree ==
    IsOk(listed) =>
        \A i, j \in 1..Len(listed[2]) :
            i # j => listed[2][i].name # listed[2][j].name

(***************************************************************************)
(* C15.  list_tools emits exactly one Tool for every function of every     *)
(* component of the catalog: the tools, as pairs of a name and a           *)
(* description, are the functions, taken as component name + "." +         *)
(* qualified name with the description the profile has for the component,  *)
(* or "" when it has none or has no entry; each as often as it occurs.     *)
(***************************************************************************)
\* the qualified names of the functions of a loaded component
QualifiedNames(component) ==
    {component.functions[k][1] : k \in 1..Len(component.functions)}
    \cup UNION {Keys(component.interfaces[k][2].functions) :
                    k \in 1..Len(component.interfaces)}

\* the pairs of a component name and a function of that component
CatalogFunctions ==
    UNION {{<<n, q>> : q \in QualifiedNames(components[n])} : n \in DOMAIN components}

ConfiguredDescription(n) ==
    IF n \in DOMAIN profile.components /\ IsSome(profile.components[n].description)
    THEN Unwrap(profile.components[n].description)
    ELSE ""

ExpectedTool(pair) == <<pair[1] \o <<Dot>> \o pair[2], ConfiguredDescription(pair[1])>>

C15_OneToolPerFunction ==
    IsOk(listed) =>
        LET tools == listed[2]
            Emitted(i) == <<tools[i].name, tools[i].description>>
        IN  /\ Len(tools) = Cardinality(CatalogFunctions)
            /\ \A p \in CatalogFunctions :
                  Cardinality({i \in 1..Len(tools) : Emitted(i) = ExpectedTool(p)})
                    = Cardinality({q \in CatalogFunctions : ExpectedTool(q) = ExpectedTool(p)})

\* the tools of a described component, of a component whose entry has no
\* description and of a component without an entry have been listed
C15_Witness ==
    /\ IsOk(listed)
    /\ DOMAIN components = ComponentNames
    /\ HandlerName \notin DOMAIN profile.components
    /\ components[<<"math">>].component = MathBinary
    /\ \E i, j, k \in 1..Len(listed[2]) :
          /\ listed[2][i].name = <<"math", Dot, "add">>
          /\ listed[2][i].description = "arithmetic"
          /\ listed[2][j].name[1] = "net"
          /\ listed[2][j].description = ""
          /\ Len(listed[2][k].name) > Len(HandlerName)
          /\ SubSeq(listed[2][k].name, 1, Len(HandlerName)) = HandlerName
          /\ components[HandlerName].component = HandleBinary
          /\ listed[2][k].description = ""

(***************************************************************************)
(* C16.  The inputSchema of every tool is an object schema whose property  *)
(* keys are exactly the parameter names of the function, whose required    *)
(* list is those names in declaration order, and whose                     *)
(* additionalProperties is false (with no parameters: empty properties and *)
(* an empty required list).  So the sets of argument keys the schema       *)
(* allows are the sets of keys the argument mapping of a call accepts.     *)
(***************************************************************************)
\* the function of a pair of CatalogFunctions, as the executor resolves it
FunctionOf(pair) ==
    IF InInterfaces(components[pair[1]], pair[2]) # {}
    THEN CHOOSE f \in InInterfaces(components[pair[1]], pair[2]) : TRUE
    ELSE Get(components[pair[1]].functions, pair[2])

DeclaredNames(function_info) ==
    [i \in 1..Len(function_info.params) |-> function_info.params[i].name]

\* the argument objects tried: every selection of these entries
ArgumentPool ==
    << <<"a", JNull>>, <<"b", JNull>>, <<"n", JNull>>, <<"d", JNull>>,
       <<"p", JNull>>, <<"req", JNull>>, <<"verbose", JNull>> >>

ArgumentObjects ==
    {SelectSeq(ArgumentPool, LAMBDA e : e[1] \in K) : K \in SUBSET Keys(ArgumentPool)}

\* JSON Schema: an object with these keys is allowed by the object schema
SchemaAllows(schema, keys) ==
    /\ \A i \in 1..Len(Get(schema[2], "required")[2]) :
          Get(schema[2], "required")[2][i][2] \in keys
    /\ Get(schema[2], "additionalProperties") = JBool(FALSE)
          => keys \subseteq Keys(Get(schema[2], "properties")[2])

C16_InputSchema ==
    IsOk(listed) =>
        \A i \in 1..Len(listed[2]) :
            \A p \in CatalogFunctions :
                listed[2][i].name = ExpectedTool(p)[1] =>
                    LET schema == listed[2][i].input_schema
                        f == FunctionOf(p)
                    IN  /\ Kind(schema) = "object"
                        /\ Get(schema[2], "type") = JString("object")
                        /\ Keys(Get(schema[2], "properties")[2])
                              = {DeclaredNames(f)[k] : k \in 1..Len(f.params)}
                        /\ Get(schema[2], "required") = JStrings(DeclaredNames(f))
                        /\ Get(schema[2], "additionalProperties") = JBool(FALSE)
                        /\ \A args \in ArgumentObjects :
                              SchemaAllows(schema, Keys(args))
                                <=> IsOk(map_named_to_positional_arguments(f, args))

\* the tools of a function of two parameters and of a function of none
\* have been listed
C16_Witness ==
    /\ IsOk(listed)
    /\ \E i, j \in 1..Len(listed[2]) :
          /\ listed[2][i].name = <<"math", Dot, "add">>
          /\ Get(listed[2][i].input_schema[2], "required") = JStrings(<<"a", "b">>)
          /\ listed[2][j].name = <<"math", Dot, "noop">>
          /\ Get(listed[2][j].input_schema[2], "required") = JStrings(<<>>)
    /\ <<<<"math">>, <<"add">>>> \in CatalogFunctions

(***************************************************************************)
(* C17.  Result aggregation: the results of a call are as many as the      *)
(* function declares; a successful call of a function with no result       *)
(* returns the JSON string "Successfully executed (no return value)", of a *)
(* function with one result the conversion of that value, not wrapped, and *)
(* of a function with n >= 2 results a JSON array of length n with the     *)
(* conversions of the values in the order of the results.                  *)
(***************************************************************************)
\* the call ran its function to the end and returned a value
Succeeded(call) ==
    /\ call.pc = "returned"
    /\ IsOk(call.result)
    /\ "call_async" \in {call.steps[k] : k \in 1..Len(call.steps)}

WasmAtoms ==
    { VBool(TRUE), VInt("S32", Neg(Small(7))), VInt("U64", Pos(Small(49))),
      VFloat32(Float("0.1")), VFloat64(Float("NaN")), VChar("c"), VString("hi"),
      VEnum("red"), VFlags(<<"r", "w">>), VResource,
      <<"Future">>, <<"Stream">>, <<"ErrorContext">> }

\* the values with a payload drawn from `inner`
Wrapped(inner) ==
    {VVariant("circle", p) : p \in {None} \cup {Some(v) : v \in inner}}
    \cup {VOption(p) : p \in {None} \cup {Some(v) : v \in inner}}
    \cup {VResult(<<tag, p>>) : tag \in {"Ok", "Err"},
                                p \in {None} \cup {Some(v) : v \in inner}}
    \cup {VList(<<v>>) : v \in inner}
    \cup {VTuple(<<v, VBool(TRUE)>>) : v \in inner}
    \cup {VRecord(<<<<"x", v>>>>) : v \in inner}

WasmValues == WasmAtoms \cup Wrapped(WasmAtoms) \cup Wrapped(Wrapped({VString("hi"), VResource}))

DemarshalInit ==
    /\ mJson = JNull
    /\ mType = TBool
    /\ mPc = "marshalled"
    /\ mOut \in {Ok(<<v>>) : v \in WasmValues}
    /\ mBack = NoResult
    /\ components = Loaded
    /\ profile = Profile
    /\ calls = [c \in 1..MaxCalls |-> Idle]
    /\ listed = NoResult
    /\ loading = Loading("done", <<>>, NoResult)

DemarshalNext == Demarshal

DemarshalSpec == DemarshalInit /\ [][DemarshalNext]_vars

(***************************************************************************)
(* C18.  The conversion of a Val to JSON never fails, and it encodes the   *)
(* sum types so: a variant becomes {variant: name, value: the conversion   *)
(* of the payload, or null}; a result becomes {result: "ok" or "error",    *)
(* value: the conversion of the payload, or null}; an option is the        *)
(* conversion of its value, or null; a resource, a future, a stream and an *)
(* error-context become the strings "[Resource]", "[Future]", "[Stream]"   *)
(* and "[ErrorContext]".                                                   *)
(***************************************************************************)
\* value is the conversion of the optional payload, null if there is none
PayloadOrNull(payload, value) ==
    IF IsSome(payload) THEN Ok(value) = wasm_to_json(Unwrap(payload))
    ELSE value = JNull

\* json is the object {tag: name, value: ...} of the payload
Tagged(json, tag, name, payload) ==
    /\ Kind(json) = "object"
    /\ Keys(json[2]) = {tag, "value"}
    /\ Len(json[2]) = 2
    /\ Get(json[2], tag) = JString(name)
    /\ PayloadOrNull(payload, Get(json[2], "value"))

Encodes(v, json) ==
    CASE v[1] = "Variant" -> Tagged(json, "variant", v[2], v[3])
      [] v[1] = "Result" ->
            Tagged(json, "result", IF v[2][1] = "Ok" THEN "ok" ELSE "error", v[2][2])
      [] v[1] = "Option" -> PayloadOrNull(v[2], json)
      [] v[1] = "Resource" -> json = JString("[Resource]")
      [] v[1] = "Future" -> json = JString("[Future]")
      [] v[1] = "Stream" -> json = JString("[Stream]")
      [] v[1] = "ErrorContext" -> json = JString("[ErrorContext]")
      [] OTHER -> TRUE

C18_Demarshal ==
    mPc = "demarshalled" =>
        /\ IsOk(mBack)
        /\ Encodes(mOut[2][1], mBack[2])
        /\ \A v \in WasmValues : IsOk(wasm_to_json(v))

\* a result whose payload is itself a wrapped value has been converted
C18_Witness ==
    /\ mPc = "demarshalled"
    /\ mOut[2][1] = VResult(<<"Err", Some(VOption(Some(VResource)))>>)
    /\ IsOk(mBack)
    /\ Get(mBack[2][2], "value") = JString("[Resource]")

(***************************************************************************)
(* C19.  Every failure of building the sandbox of a call is an             *)
(* InvalidArguments error, never Execution or another kind: a cwd that     *)
(* does not exist or is not a directory, a volume whose host_path does not *)
(* exist, a file host_path without a parent, and a failure to pre-open a   *)
(* directory; and a call whose sandbox was not built has no store.         *)
(***************************************************************************)
\* the call ended in an error of create_wasi_context
SandboxFailure(call) ==
    /\ call.pc = "returned"
    /\ IsErr(call.result)
    /\ call.steps # <<>>
    /\ call.steps[Len(call.steps)] = "create_wasi_context"

C19_SandboxErrors ==
    \A c \in 1..MaxCalls :
        SandboxFailure(calls[c]) =>
            /\ ErrKind(calls[c].result) = "InvalidArguments"
            /\ calls[c].store = "none"
            /\ ~IsSome(calls[c].state)

(***************************************************************************)
(* C20.  After the load the executor is read-only: every list_tools and    *)
(* every step of every call, whether the call succeeds or fails, leaves    *)
(* the catalog of components (names, standalone functions, interfaces)     *)
(* and the configuration as they were, so a failed call does not change    *)
(* what a later list_tools or call works on.                               *)
(***************************************************************************)
C20_ReadOnly == [][components' = components /\ profile' = profile]_vars

\* one call has failed, another has succeeded and the tools have been
\* listed, over the catalog as it was loaded
C20_Witness ==
    /\ \E c \in 1..MaxCalls : calls[c].pc = "returned" /\ IsErr(calls[c].result)
    /\ \E c \in 1..MaxCalls : Succeeded(calls[c])
    /\ IsOk(listed)
    /\ Len(listed[2]) = 5
    /\ components = Loaded
    /\ profile = Profile

(***************************************************************************)
(* C21.  Every call that reaches instantiation has built its own sandbox   *)
(* context and its own store, once each and in this order, from the        *)
(* configuration of its own component; a call holds a store only between   *)
(* its Store::new and its return, whatever the other calls do, and no      *)
(* store is live after the call returned, with a value or with an error.   *)
(***************************************************************************)
Count(steps, label) == Cardinality({k \in 1..Len(steps) : steps[k] = label})

\* the label a comes before the label b in the steps
Before(steps, a, b) ==
    \E i, j \in 1..Len(steps) : i < j /\ steps[i] = a /\ steps[j] = b

OwnStore(call) ==
    /\ Count(call.steps, "create_wasi_context") = 1
    /\ Count(call.steps, "Store::new") = 1
    /\ Before(call.steps, "create_wasi_context", "Store::new")
    /\ IsSome(call.state)
    /\ \E fs \in FileSystems :
          Ok(Unwrap(call.state))
            = create_wasi_context(profile.components[call.component_name], fs, TRUE)

C21_OwnStore ==
    \A c \in 1..MaxCalls :
        /\ calls[c].pc \in {"instantiate_async", "call_async"}
              => calls[c].store = "live" /\ OwnStore(calls[c])
        /\ calls[c].store = "dropped" => calls[c].pc = "returned" /\ OwnStore(calls[c])
        /\ calls[c].pc \in {"idle", "returned"} => calls[c].store # "live"
        /\ calls[c].store = "none" => Count(calls[c].steps, "Store::new") = 0

\* two calls are in flight at once, each with its store, and they run
\* components with different sandboxes
C21_Witness ==
    \E c, d \in 1..MaxCalls :
        /\ calls[c].pc = "call_async" /\ calls[c].store = "live"
        /\ calls[d].pc = "instantiate_async" /\ calls[d].store = "live"
        /\ calls[c].component_name = <<"math">>
        /\ calls[d].component_name = <<"net">>
        /\ calls[c].state # calls[d].state

(***************************************************************************)
(* server.rs, oci.rs: the load of a profile.  Every component has its own  *)
(* task; the tasks complete in any order; load joins them all.             *)
(***************************************************************************)
\* a ComponentConfig with its source fields
Sourced(path, oci, config) == [path |-> path, oci |-> oci] @@ config

\* the resolution that takes the path when both sources are set
resolve_component_reference_lenient(component_path, component_oci, downloaded) ==
    IF IsSome(component_path) THEN Ok(Unwrap(component_path))
    ELSE IF IsSome(component_oci) THEN downloaded
    ELSE Err("InvalidArguments", "Must specify either 'path' or 'oci' for component")

\* Resolve a component reference to a local file path; downloaded is the
\* Result of download_wasm_component for the reference
resolve_component_reference(component_path, component_oci, downloaded) ==
    IF IsSome(component_path) /\ ~IsSome(component_oci) THEN Ok(Unwrap(component_path))
    ELSE IF ~IsSome(component_path) /\ IsSome(component_oci) THEN downloaded
    ELSE IF IsSome(component_path) /\ IsSome(component_oci)
    THEN Err("InvalidArguments", "Cannot specify both 'path' and 'oci' for the same component")
    ELSE Err("InvalidArguments", "Must specify either 'path' or 'oci' for component")

\* the task of one component in load; compiled is the Result of
\* Component::from_file on the resolved path
load_task(name, component_config, downloaded, compiled) ==
    IF ~IsSome(component_config.oci) /\ ~IsSome(component_config.path)
    THEN Err("InvalidArguments", "unknown source")
    ELSE LET resolved_path ==
                 resolve_component_reference(component_config.path,
                                             component_config.oci, downloaded)
         IN  IF IsErr(resolved_path) THEN resolved_path
             ELSE IF IsErr(compiled) THEN compiled
             ELSE Ok(<<name, new_with_engine(name, compiled[2])>>)

\* the insertion that keeps the component a name already has
add_component_keep(executor, name, component) ==
    [n \in DOMAIN executor \cup {name} |->
        IF n \in DOMAIN executor THEN executor[n] ELSE component]

\* Add a component to the executor
add_component(executor, name, component) ==
    [n \in DOMAIN executor \cup {name} |-> IF n = name THEN component ELSE executor[n]]

\* the loop of load over the loaded components
RECURSIVE add_loaded(_, _, _)
add_loaded(executor, loaded_components, i) ==
    IF i > Len(loaded_components) THEN executor
    ELSE add_loaded(add_component(executor, loaded_components[i][1],
                                  loaded_components[i][2]),
                    loaded_components, i + 1)

\* the results download_wasm_component may have for a reference
Downloads ==
    {Ok("cache/ghcr.io_acme_net_1.wasm"),
     Err("InvalidArguments", "Failed to pull OCI artifact")}

\* the results Component::from_file may have for the file of a component
Compilations(name) == {Ok(Binary(name)), Err("Component", "from_file")}

SourceChoices ==
    {<<path, oci>> : path \in {None, Some("component.wasm")},
                     oci \in {None, Some("ghcr.io/acme/net:1")}}

\* the profiles loaded: up to two components, each with any sources
LoadProfiles ==
    {[components |-> [name \in names |->
                         Sourced(choice[name][1], choice[name][2],
                                 ComponentConfig(None, <<>>, None))]] :
        names \in SUBSET {<<"math">>, <<"net">>},
        choice \in [{<<"math">>, <<"net">>} -> SourceChoices]}

LoadInit ==
    /\ mJson = JNull
    /\ mType = TBool
    /\ mPc = "off"
    /\ mOut = NoResult
    /\ mBack = NoResult
    /\ components = [name \in {} |-> name]
    /\ profile \in LoadProfiles
    /\ calls = [c \in 1..MaxCalls |-> Idle]
    /\ listed = NoResult
    /\ loading = Loading("start", <<>>, NoResult)

\* load up to try_join_all: the empty profile is refused, else one task is
\* spawned per component
LoadStart ==
    /\ loading.pc = "start"
    /\ loading' =
          IF DOMAIN profile.components = {}
          THEN Loading("done", <<>>,
                       Err("InvalidArguments", "Profile has no components configured"))
          ELSE Loading("join_all", [name \in DOMAIN profile.components |-> NoResult],
                       NoResult)
    /\ UNCHANGED <<mJson, mType, mPc, mOut, mBack, components, profile, calls, listed>>

\* the task of one component runs to its end
LoadTask(name) ==
    /\ loading.pc = "join_all"
    /\ name \in DOMAIN loading.tasks
    /\ loading.tasks[name] = NoResult
    /\ \E downloaded \in Downloads, compiled \in Compilations(name) :
          loading' = [loading EXCEPT !.tasks[name] =
                         load_task(name, profile.components[name], downloaded, compiled)]
    /\ UNCHANGED <<mJson, mType, mPc, mOut, mBack, components, profile, calls, listed>>

\* the join that fails and yet keeps the components that were loaded
LoadJoin_partial ==
    /\ loading.pc = "join_all"
    /\ \A name \in DOMAIN loading.tasks : loading.tasks[name] # NoResult
    /\ \E order \in Orders(DOMAIN loading.tasks) :
          LET results == [i \in 1..Len(order) |-> loading.tasks[order[i]]]
              loaded_components == Collect(results)
              good == SelectSeq(results, LAMBDA r : IsOk(r))
          IN  /\ components' = add_loaded(components, [i \in 1..Len(good) |-> good[i][2]], 1)
              /\ loading' = [loading EXCEPT !.pc = "done",
                                            !.result = IF IsErr(loaded_components)
                                                       THEN loaded_components
                                                       ELSE Ok("executor")]
    /\ UNCHANGED <<mJson, mType, mPc, mOut, mBack, profile, calls, listed>>

\* load from the end of try_join_all: the Results are collected in the
\* order of the tasks, which is the iteration order of the profile's map
LoadJoin ==
    /\ loading.pc = "join_all"
    /\ \A name \in DOMAIN loading.tasks : loading.tasks[name] # NoResult
    /\ \E order \in Orders(DOMAIN loading.tasks) :
          LET loaded_components ==
                  Collect([i \in 1..Len(order) |-> loading.tasks[order[i]]])
          IN  IF IsErr(loaded_components)
              THEN /\ loading' = [loading EXCEPT !.pc = "done",
                                                 !.result = loaded_components]
                   /\ UNCHANGED components
              ELSE /\ components' = add_loaded(components, loaded_components[2], 1)
                   /\ loading' = [loading EXCEPT !.pc = "done", !.result = Ok("executor")]
    /\ UNCHANGED <<mJson, mType, mPc, mOut, mBack, profile, calls, listed>>

LoadNext ==
    \/ LoadStart
    \/ \E name \in DOMAIN profile.components : LoadTask(name)
    \/ LoadJoin

LoadSpec == LoadInit /\ [][LoadNext]_vars

(***************************************************************************)
(* C22.  Resolving the source of a component returns a local file path if  *)
(* and only if exactly one of path and oci is set; with neither and with   *)
(* both set the load of the component fails with InvalidArguments and no   *)
(* component is added to the catalog.                                      *)
(***************************************************************************)
ExactlyOneSource(config) == IsSome(config.path) # IsSome(config.oci)

\* the task got a path from the resolution: it went on to compile the file
ResolvedToPath(task) == IsOk(task) \/ (IsErr(task) /\ ErrKind(task) = "Component")

\* the load has failed and has added nothing
LoadRefused ==
    loading.pc = "done" => IsErr(loading.result) /\ DOMAIN components = {}

C22_SourceResolution ==
    \A name \in DOMAIN loading.tasks :
        LET task == loading.tasks[name]
            config == profile.components[name]
        IN  task # NoResult =>
                /\ ResolvedToPath(task) <=> ExactlyOneSource(config)
                /\ ~ExactlyOneSource(config) =>
                      /\ IsErr(task)
                      /\ ErrKind(task) = "InvalidArguments"
                      /\ LoadRefused

\* C22 as amended: a path is returned only if exactly one of path and oci
\* is set; with only path set the path is returned, with only oci set the
\* path of the download or the error of the download; with neither and with
\* both set the load of the component fails with InvalidArguments and no
\* component is added to the catalog.
C22_SourceResolutionAmended ==
    \A name \in DOMAIN loading.tasks :
        LET task == loading.tasks[name]
            config == profile.components[name]
        IN  task # NoResult =>
                /\ ResolvedToPath(task) => ExactlyOneSource(config)
                /\ IsSome(config.path) /\ ~IsSome(config.oci) => ResolvedToPath(task)
                /\ ~IsSome(config.path) /\ IsSome(config.oci)
                      => ResolvedToPath(task) \/ task \in Downloads
                /\ ~ExactlyOneSource(config) =>
                      /\ IsErr(task)
                      /\ ErrKind(task) = "InvalidArguments"
                      /\ LoadRefused

\* a load has ended in which one component had both sources set and the
\* other, with oci alone, was downloaded and compiled
C22_Witness ==
    /\ loading.pc = "done"
    /\ DOMAIN loading.tasks = {<<"math">>, <<"net">>}
    /\ IsSome(profile.components[<<"math">>].path)
    /\ IsSome(profile.components[<<"math">>].oci)
    /\ ~IsSome(profile.components[<<"net">>].path)
    /\ IsOk(loading.tasks[<<"net">>])
    /\ IsErr(loading.result)

(***************************************************************************)
(* C23.  For every interface the export walker finds at a path p, the      *)
(* function map of the interface is keyed by the unqualified local name of *)
(* each function (the name without the path of the interface), and the     *)
(* FunctionInfo stored under a key has the qualified name p + "." + key.   *)
(***************************************************************************)
C23_InterfaceKeys ==
    \A n \in DOMAIN components :
        \A k \in 1..Len(components[n].interfaces) :
            LET interface == components[n].interfaces[k][2]
            IN  \A i \in 1..Len(interface.functions) :
                    LET key == interface.functions[i][1]
                        func == interface.functions[i][2]
                    IN  /\ ~contains_dot(key)
                        /\ func.name = Dotted(interface.full_name, key)

(***************************************************************************)
(* A client that lists the tools and calls them by the names it was given. *)
(***************************************************************************)
HandleFunc == ComponentFunc(<<<<"req", TString>>>>, <<TString>>)

\* an interface whose name has a version
VersionedBinary ==
    << << <<"wasi:http", "/", "handler@0", Dot, "2", Dot, "0">>,
          ComponentInstance(<< <<<<"handle">>, HandleFunc>> >>) >> >>

\* an instance inside an instance, and a function inside a nested component
NestedBinary ==
    << << <<"outer">>,
          ComponentInstance(<< << <<"inner">>,
                                  ComponentInstance(<< <<<<"handle">>, HandleFunc>> >>) >> >>) >>,
       << <<"lib">>, <<"Component", << <<<<"handle">>, HandleFunc>> >> >> >> >>

\* a function at the top level and a function of the same local name in
\* an interface
BothBinary ==
    << <<<<"handle">>, HandleFunc>>,
       << <<"wasi:http", "/", "handler">>,
          ComponentInstance(<< <<<<"handle">>, HandleFunc>> >>) >> >>

HandleCatalogs ==
    { (<<"api">> :> VersionedBinary),
      (<<"api">> :> NestedBinary),
      (<<"api">> :> BothBinary),
      (HandlerName :> HandleBinary),
      (<<"net">> :> NetBinary) @@ (HandlerName :> HandleBinary) }

HandleProfile ==
    [ components |->
        [name \in {<<"api">>, <<"net">>, HandlerName} |-> ComponentConfig(None, <<>>, None)] ]

\* the arguments a client builds from the input schema of a tool
ArgumentsFor(tool) ==
    LET required == Get(tool.input_schema[2], "required")[2]
    IN  [i \in 1..Len(required) |-> <<required[i][2], JString("hi")>>]

HandleInit ==
    /\ mJson = JNull
    /\ mType = TBool
    /\ mPc = "off"
    /\ mOut = NoResult
    /\ mBack = NoResult
    /\ \E catalog \in HandleCatalogs :
          components = [name \in DOMAIN catalog |-> new_with_engine(name, catalog[name])]
    /\ profile = HandleProfile
    /\ calls = [c \in 1..MaxCalls |-> Idle]
    /\ listed = NoResult
    /\ loading = Loading("done", <<>>, NoResult)

\* a client calls a tool it was listed: execute_function runs to
\* instantiate_async
CallListed(c) ==
    /\ calls[c].pc = "idle"
    /\ IsOk(listed)
    /\ \E i \in 1..Len(listed[2]) :
          LET tool_name == listed[2][i].name
              arguments == ArgumentsFor(listed[2][i])
          IN  \E fs \in FileSystems, preopen_ok \in BOOLEAN :
              \E function_info \in
                    (IF IsSome(split_once(tool_name))
                        /\ Unwrap(split_once(tool_name))[1] \in DOMAIN components
                     THEN get_function_info(components[Unwrap(split_once(tool_name))[1]],
                                            Unwrap(split_once(tool_name))[2])
                     ELSE {None}) :
                 calls' = [calls EXCEPT ![c] =
                              execute_function(components, profile, tool_name, arguments,
                                               function_info, fs, preopen_ok)]
    /\ UNCHANGED <<mJson, mType, mPc, mOut, mBack, components, profile, listed, loading>>

HandleNext ==
    \/ ListTools
    \/ \E c \in 1..MaxCalls : CallListed(c)
    \/ \E c \in 1..MaxCalls : Instantiate(c)
    \/ \E c \in 1..MaxCalls : Invoke(c)

HandleSpec == HandleInit /\ [][HandleNext]_vars

(***************************************************************************)
(* C24.  The function resolver takes a qualified name without "." as an    *)
(* export of the top level; else it splits the name at its LAST "." into   *)
(* the path of the interface and the local name, so a path with dots (a    *)
(* version) stays whole.  An interface that is not exported fails with     *)
(* InterfaceNotFound, a function missing in an exported interface with     *)
(* FunctionNotFound.  For every interface function of the catalog the path *)
(* this split gives is the full_name of the interface that holds it.       *)
(***************************************************************************)
\* the top-level export of the instance under the name, if any
ExportNamed(instance, name) ==
    {instance[k][2] : k \in {k \in 1..Len(instance) : instance[k][1] = name}}

\* what the resolver is to return for the name: the function, or the kind
\* of its error
Resolution(instance, name) ==
    IF ~contains_dot(name)
    THEN IF ExportNamed(instance, name) = {} THEN <<"FunctionNotFound">>
         ELSE <<"found", CHOOSE item \in ExportNamed(instance, name) : TRUE>>
    ELSE LET last == CHOOSE k \in 1..Len(name) :
                        name[k] = Dot /\ \A j \in (k + 1)..Len(name) : name[j] # Dot
             interface_path == SubSeq(name, 1, last - 1)
             local_name == SubSeq(name, last + 1, Len(name))
         IN  IF ExportNamed(instance, interface_path) = {} THEN <<"InterfaceNotFound">>
             ELSE LET interface == CHOOSE item \in ExportNamed(instance, interface_path) : TRUE
                  IN  IF interface[1] = "ComponentInstance"
                         /\ ExportNamed(interface[2], local_name) # {}
                      THEN <<"found", CHOOSE item \in ExportNamed(interface[2], local_name) : TRUE>>
                      ELSE <<"FunctionNotFound">>

\* the call has run the resolver
Resolved(call) == Count(call.steps, "get_function_from_instance") = 1

InterfaceEntries(component) ==
    UNION {{<<k, i>> : i \in 1..Len(component.interfaces[k][2].functions)} :
              k \in 1..Len(component.interfaces)}

EntryAt(component, e) == component.interfaces[e[1]][2].functions[e[2]]

Declared(call) ==
    LET params == Unwrap(call.function_info).params
    IN  [k \in 1..Len(params) |-> Get(call.arguments, params[k].name)]

\* the FunctionInfos of the catalog
CatalogInfos ==
    UNION {{components[n].functions[k][2] : k \in 1..Len(components[n].functions)}
           \cup {EntryAt(components[n], e)[2] : e \in InterfaceEntries(components[n])} :
              n \in DOMAIN components}

C26_Positions ==
    /\ \A c \in 1..MaxCalls :
          Count(calls[c].steps, "convert_args_to_wasm_values") = 1 =>
              LET params == Unwrap(calls[c].function_info).params
                  converted == convert_args_to_wasm_values(Declared(calls[c]), params)
              IN  /\ Keys(calls[c].arguments) = {params[k].name : k \in 1..Len(params)}
                  /\ IF IsErr(converted)
                     THEN calls[c].pc = "returned" /\ calls[c].result = converted
                     ELSE /\ Len(calls[c].args) = Len(params)
                          /\ calls[c].args = converted[2]
    /\ \A f \in CatalogInfos :
          \A k \in 1..Len(f.params) : f.params[k].position = k - 1

\* a call that gave b before a is being run with a first
C26_Witness ==
    \E c \in 1..MaxCalls :
        /\ calls[c].pc = "call_async"
        /\ calls[c].arguments = <<<<"b", J(42)>>, <<"a", J(7)>>>>
        /\ calls[c].args = <<VInt("S32", Pos(Small(7))), VInt("S32", Pos(Small(42)))>>

(***************************************************************************)
(* C27.  The read_only flag of a volume mount does not influence the       *)
(* sandbox: a configuration that differs from the one of the call only in  *)
(* the read_only values of its volumes gives a sandbox with the same       *)
(* pre-opens and the same permissions, which are the full directory and    *)
(* file permissions; a mount declared read_only is writable by the guest.  *)
(***************************************************************************)
\* the configurations that differ from config at most in read_only values
ReadOnlyVariants(config) ==
    {[config EXCEPT !.volumes =
          [k \in 1..Len(config.volumes) |-> [config.volumes[k] EXCEPT !.read_only = flags[k]]]] :
        flags \in [1..Len(config.volumes) -> BOOLEAN]}

C28_UsableHandle ==
    \A c \in 1..MaxCalls :
        calls[c].pc # "idle" =>
            \A p \in CatalogFunctions :
                calls[c].tool_name = ExpectedTool(p)[1] =>
                    /\ calls[c].component_name = p[1]
                    /\ calls[c].function_info = Some(FunctionOf(p))
                    /\ Len(calls[c].steps) > 3

(***************************************************************************)
(* C29.  The load of a profile is all or nothing: it fails, for the empty  *)
(* profile and when the task of any component failed, in whatever order    *)
(* the tasks completed, and then there is no executor; or it returns an    *)
(* executor whose component names are the names of the profile, so that    *)
(* every component of a loaded executor has a configuration.               *)
(***************************************************************************)
C29_AllOrNothing ==
    loading.pc = "done" =>
        /\ IsErr(loading.result)
              <=> \/ DOMAIN profile.components = {}
                  \/ \E name \in DOMAIN loading.tasks : IsErr(loading.tasks[name])
        /\ IsErr(loading.result) => DOMAIN components = {}
        /\ IsOk(loading.result) =>
              /\ DOMAIN components = DOMAIN profile.components
              /\ \A name \in DOMAIN components :
                    /\ loading.tasks[name] = Ok(<<name, components[name]>>)
                    /\ IsSome(get_component_config(profile, name))
                    /\ components[name].name = name

\* a profile of two components has been loaded
C29_Witness ==
    /\ loading.pc = "done"
    /\ IsOk(loading.result)
    /\ DOMAIN components = {<<"math">>, <<"net">>}
    /\ IsSome(profile.components[<<"net">>].oci)
    /\ IsSome(profile.components[<<"math">>].path)

(***************************************************************************)
(* A caller that builds an executor with add_component.                    *)
(***************************************************************************)
AddInit ==
    /\ mJson = JNull
    /\ mType = TBool
    /\ mPc = "off"
    /\ mOut = NoResult
    /\ mBack = NoResult
    /\ components = [name \in {} |-> name]
    /\ profile = WideProfile
    /\ calls = [c \in 1..MaxCalls |-> Idle]
    /\ listed = NoResult
    /\ loading = Loading("done", <<>>, NoResult)

AddComponent ==
    /\ Len(loading.tasks) < MaxAdds
    /\ \E name \in ComponentNames, binary \in Binaries :
          LET component == new_with_engine(name, binary)
          IN  /\ components' = add_component(components, name, component)
              /\ loading' = [loading EXCEPT !.tasks = Append(@, <<name, component>>)]
    /\ UNCHANGED <<mJson, mType, mPc, mOut, mBack, profile, calls, listed>>

AddNext == AddComponent

AddSpec == AddInit /\ [][AddNext]_vars

(***************************************************************************)
(* C30.  add_component keeps the names unique keys: after any sequence of  *)
(* add_component the catalog has one entry for every name that was added,  *)
(* bound to the component added last under that name (a second add of a    *)
(* name overwrites, it is neither refused nor kept beside the first), and  *)
(* an add leaves the entries of the other names as they were.              *)
(***************************************************************************)
\* the positions in the sequence of adds at which the name was added
AddsOf(name) == {k \in 1..Len(loading.tasks) : loading.tasks[k][1] = name}

C30_UniqueNames ==
    /\ DOMAIN components = {loading.tasks[k][1] : k \in 1..Len(loading.tasks)}
    /\ \A name \in DOMAIN components :
          components[name]
            = loading.tasks[CHOOSE k \in AddsOf(name) : \A l \in AddsOf(name) : l <= k][2]

\* a name was added twice, with two different components, and another
\* name between them
C30_Witness ==
    /\ Len(loading.tasks) = 3
    /\ loading.tasks[1][1] = <<"math">>
    /\ loading.tasks[2][1] = <<"net">>
    /\ loading.tasks[3][1] = <<"math">>
    /\ loading.tasks[1][2] # loading.tasks[3][2]
    /\ DOMAIN components = {<<"math">>, <<"net">>}
    /\ components[<<"math">>] = loading.tasks[3][2]
    /\ components[<<"net">>] = loading.tasks[2][2]

====
